---- MODULE Spec2Model ----
(***************************************************************************)
(* Batch metadata extraction: the per-document pipeline with retry         *)
(* (process_contract_with_retry), the progress tracker and the batch       *)
(* orchestrator (process_contracts_from_blob / process_contracts_to_csv)   *)
(* of managed-identity-metadata-extraction-POC.py (schema A) and           *)
(* metadata-extraction-POC.py (schema B).                                  *)
(*                                                                         *)
(* Python strings are sequences of one-character strings, so that the      *)
(* substring tests, the path splitting and the concatenations of the code  *)
(* are computed, not assumed.  Python dicts are functions whose domain is  *)
(* the set of keys.                                                        *)
(***************************************************************************)
EXTENDS Integers, Sequences, FiniteSets, TLC

VARIABLES
    config,      \* module-level configuration flags and service handles
    listing,     \* the documents the source enumerates (names)
    parallel,    \* the parallel argument of the orchestrator
    opc,         \* position of the orchestrator thread
    file_infos,  \* the work items built by the orchestrator
    queue,       \* work items submitted to the pool and not yet taken
    worker,      \* pool thread -> work item it runs (0: idle)
    cur,         \* sequential mode: index of the item the calling thread runs
    job,         \* per work item: the frame of process_contract_with_retry
    progress,    \* ProgressTracker: total, completed, lock holder
    results,     \* the orchestrator's results list
    origin,      \* for each entry of results, the work item it came from
    csv_file,    \* the file at output_csv (NotWritten before)
    failed_file, \* the file at the failure list's path (NotWritten before)
    summary,     \* success_count and error_count as the run prints them
    output_csv,  \* the output name the run was given
    markdown     \* blob_service_client and the markdown container behind it

vars == <<config, listing, parallel, opc, file_infos, queue, worker, cur, job,
          progress, results, origin, csv_file, failed_file, summary, output_csv,
          markdown>>

(***************************************************************************)
(* Bounds of the model and program constants.                              *)
(***************************************************************************)
NumItems == 2

\* threads calling ProgressTracker.increment on one tracker
NumCallers == 4

MAX_WORKERS == 2
MAX_RETRIES == 3
RETRY_DELAY == 2

(***************************************************************************)
(* String literals of the code, and the texts the collaborators produce.   *)
(***************************************************************************)
None == <<"<None>">>

s_txt == <<".", "t", "x", "t">>
s_docx == <<".", "d", "o", "c", "x">>
s_pdf == <<".", "p", "d", "f">>
s_md == <<".", "m", "d">>
s_MD == <<".", "M", "D">>
s_None == <<"N", "o", "n", "e">>
s_rate == <<"r", "a", "t", "e">>
s_429 == <<"4", "2", "9">>
s_rate_suffix == <<" ", "(", "R", "a", "t", "e", " ", "l", "i", "m", "i", "t", " ", "d", "e", "t", "e", "c", "t", "e", "d", ")">>
s_read_prefix == <<"R", "e", "a", "d", " ", "e", "r", "r", "o", "r", ":", " ">>
s_trans_prefix == <<"T", "r", "a", "n", "s", "l", "a", "t", "i", "o", "n", " ", "e", "r", "r", "o", "r", ":", " ">>
s_unknown == <<"u", "n", "k", "n", "o", "w", "n">>
s_medium == <<"m", "e", "d", "i", "u", "m">>
s_two_call == <<"t", "w", "o", "_", "c", "a", "l", "l", "_", "t", "r", "a", "n", "s", "l", "a", "t", "i", "o", "n">>
s_max_retries == <<"M", "a", "x", " ", "r", "e", "t", "r", "i", "e", "s", " ", "e", "x", "c", "e", "e", "d", "e", "d">>
s_not_configured == <<"D", "o", "c", "u", "m", "e", "n", "t", " ", "I", "n", "t", "e", "l", "l", "i", "g", "e", "n", "c", "e", " ", "n", "o", "t", " ", "c", "o", "n", "f", "i", "g", "u", "r", "e", "d">>
s_ext_required == <<"E", "x", "t", "e", "n", "s", "i", "o", "n", " ", "r", "e", "q", "u", "i", "r", "e", "d", " ", "f", "o", "r", " ", "b", "y", "t", "e", "s", " ", "d", "a", "t", "a">>
s_ext_required_url == <<"E", "x", "t", "e", "n", "s", "i", "o", "n", " ", "r", "e", "q", "u", "i", "r", "e", "d", " ", "f", "o", "r", " ", "b", "l", "o", "b", " ", "U", "R", "L">>
s_unsupported == <<"U", "n", "s", "u", "p", "p", "o", "r", "t", "e", "d", " ", "f", "i", "l", "e", " ", "f", "o", "r", "m", "a", "t", ":", " ">>
s_blob_only == <<"B", "l", "o", "b", " ", "U", "R", "L", " ", "o", "n", "l", "y", " ", "s", "u", "p", "p", "o", "r", "t", "e", "d", " ", "f", "o", "r", " ", "P", "D", "F", "s", ",", " ", "g", "o", "t", ":", " ">>

\* str(e) of the exceptions the services and the code raise
e_429 == <<"4", "2", "9">>
e_RateLimit == <<"R", "a", "t", "e", " ", "l", "i", "m", "i", "t", " ", "e", "x", "c", "e", "e", "d", "e", "d">>
e_401 == <<"4", "0", "1", " ", "U", "n", "a", "u", "t", "h", "o", "r", "i", "z", "e", "d">>
e_json == <<"E", "x", "p", "e", "c", "t", "i", "n", "g", " ", "v", "a", "l", "u", "e">>
e_decode == <<"i", "n", "v", "a", "l", "i", "d", " ", "s", "t", "a", "r", "t", " ", "b", "y", "t", "e">>
\* AttributeError of None.upper() and of None.lower(), TypeError of
\* Path(None), shortened
e_lower == <<"n", "o", " ", "a", "t", "t", "r", "i", "b", "u", "t", "e", " ", "l", "o", "w", "e", "r">>
e_upper == <<"n", "o", " ", "a", "t", "t", "r", "i", "b", "u", "t", "e", " ", "u", "p", "p", "e", "r">>
e_path == <<"n", "o", "t", " ", "N", "o", "n", "e", "T", "y", "p", "e">>

\* the suffix the failure list name is made from, and what replaces it
s_csv == <<".", "c", "s", "v">>
s_failed_contracts == <<"_", "f", "a", "i", "l", "e", "d", "_", "c", "o", "n", "t", "r", "a", "c", "t", "s", ".", "t", "x", "t">>

\* output names a run can be given
o_csv == <<"r", ".", "c", "s", "v">>
o_plain == <<"r">>

\* document names of the listing, document text, values the model returns
n_x == <<"x", ".", "m", "d">>
n_a == <<"a", ".", "t", "x", "t">>
n_b == <<"d", "/", "b", ".", "p", "d", "f">>
n_c == <<"c", ".", "d", "o", "c", "x">>
n_d == <<"a", ".", "p", "d", "f">>
s_text == <<"a", "v", "t", "a", "l">>
s_english == <<"c", "o", "n", "t", "r", "a", "c", "t">>
s_invented == <<"A", "g", "r", "e", "e", "m", "e", "n", "t", ".", "p", "d", "f">>
s_sv == <<"s", "v">>
s_high == <<"h", "i", "g", "h">>
s_low == <<"l", "o", "w">>
s_certain == <<"c", "e", "r", "t", "a", "i", "n">>
s_Perpetual == <<"P", "e", "r", "p", "e", "t", "u", "a", "l">>
s_Fixed == <<"F", "i", "x", "e", "d">>
s_date == <<"1", "2", "/", "3", "1", "/", "2", "0", "2", "5">>
s_v == <<"x">>
s_ts == <<"T">>

(***************************************************************************)
(* Python string operations.                                               *)
(***************************************************************************)
LowerChar(c) ==
    CASE c = "R" -> "r" [] c = "A" -> "a" [] c = "T" -> "t" [] c = "E" -> "e"
      [] c = "P" -> "p" [] c = "D" -> "d" [] c = "F" -> "f" [] c = "X" -> "x"
      [] c = "U" -> "u" [] c = "I" -> "i" [] c = "N" -> "n" [] c = "M" -> "m"
      [] c = "B" -> "b" [] c = "L" -> "l"
      [] OTHER -> c

\* s.lower()
Lower(s) == [k \in 1..Len(s) |-> LowerChar(s[k])]

\* sub in s
Contains(s, sub) ==
    \E t \in {s} : \E k \in 1..(Len(t) - Len(sub) + 1) : SubSeq(t, k, k + Len(sub) - 1) = sub

\* str(x) as an f-string renders it
Str(x) == IF x = None THEN s_None ELSE x

\* not x, for x a string or None
Falsy(x) == x = None \/ x = <<>>

\* index of the last occurrence of c in s, 0 when there is none
LastIndex(s, c) ==
    IF \E k \in 1..Len(s) : s[k] = c
    THEN CHOOSE k \in 1..Len(s) : s[k] = c /\ \A m \in (k+1)..Len(s) : s[m] # c
    ELSE 0

\* os.path.basename, os.path.dirname (posix)
Basename(p) == SubSeq(p, LastIndex(p, "/") + 1, Len(p))

Dirname(p) ==
    LET k == LastIndex(p, "/") IN IF k <= 1 THEN SubSeq(p, 1, k) ELSE SubSeq(p, 1, k - 1)

\* Path(p).suffix
Suffix(p) ==
    LET b == Basename(p)
        k == LastIndex(b, ".")
    IN  IF k <= 1 \/ k = Len(b) THEN <<>> ELSE SubSeq(b, k, Len(b))

\* os.path.splitext: the last dot of the last component splits the path,
\* unless only dots come before it in that component
splitext(p) ==
    LET sep == LastIndex(p, "/")
        dot == LastIndex(p, ".")
    IN  IF dot > sep /\ \E k \in (sep + 1)..(dot - 1) : p[k] # "."
        THEN <<SubSeq(p, 1, dot - 1), SubSeq(p, dot, Len(p))>>
        ELSE <<p, <<>>>>

\* str.replace(old, new): every occurrence of old, left to right
RECURSIVE Replace(_, _, _)
Replace(s, old, new) ==
    IF Len(s) < Len(old) \/ old = <<>> THEN s
    ELSE IF SubSeq(s, 1, Len(old)) = old
         THEN new \o Replace(SubSeq(s, Len(old) + 1, Len(s)), old, new)
         ELSE <<s[1]>> \o Replace(Tail(s), old, new)

\* the error text is rate-limit-flavoured
IsRateLimit(error) == Contains(Lower(error), s_rate) \/ Contains(error, s_429)

(***************************************************************************)
(* Python dicts.                                                           *)
(***************************************************************************)
EmptyDict == [k \in {} |-> None]

\* the value None where a dict is expected
NoDict == [none \in {"<None>"} |-> None]

\* d.get(k, default)
Get(d, k, default) == IF k \in DOMAIN d THEN d[k] ELSE default

\* d[k] = v
Put(d, k, v) == [x \in (DOMAIN d) \cup {k} |-> IF x = k THEN v ELSE d[x]]

\* if d:
Truthy(d) == d # NoDict /\ DOMAIN d # {}

(***************************************************************************)
(* Schema A and the columns of the report.                                 *)
(***************************************************************************)
\* (a changed SIRION_FIELDS: the list before 'Related Master Agreement')
SIRION_FIELDS_11 ==
    << "Original File Name", "Counterparty Legal Entity Name",
       "Internal Contracting Entity", "Contract Type", "Term Type",
       "Effective Date", "Expiration Date", "Governing Law", "Payment Term",
       "Contract Name", "Scope Category level 1" >>

\* schema B, the list of the key-based variant
SIRION_FIELDS_B ==
    << "Customer (CK) Entity", "Supplier Entity", "Effective Date",
       "Expiration Date", "Term Type", "Governing Law", "Contract Type",
       "Contract Currency", "Payment Term", "Termination for Convenience",
       "Notice Period for Termination for Convenience",
       "Party with the Right to Terminate for Convenience" >>

\* the fields SYSTEM_PROMPT gives a numbered instruction for, in its order
SYSTEM_PROMPT ==
    << "Original File Name", "Counterparty Legal Entity Name",
       "Internal Contracting Entity", "Contract Type", "Term Type",
       "Effective Date", "Expiration Date", "Governing Law", "Payment Term",
       "Contract Name", "Scope Category level 1", "Related Master Agreement" >>

\* schema A

SIRION_FIELDS ==
    << "Original File Name", "Counterparty Legal Entity Name",
       "Internal Contracting Entity", "Contract Type", "Term Type",
       "Effective Date", "Expiration Date", "Governing Law", "Payment Term",
       "Contract Name", "Scope Category level 1", "Related Master Agreement" >>

Range(seq) == {seq[k] : k \in 1..Len(seq)}

csv_columns ==
    << "Folder Path", "File Name", "Source Language", "Extraction Timestamp" >>
    \o SIRION_FIELDS \o << "Confidence", "Notes" >>

(***************************************************************************)
(* JSON objects the model returns, and replies of the collaborators.       *)
(***************************************************************************)
\* every field filled; the file name is one the model made up
J_complete ==
    [k \in Range(SIRION_FIELDS) \cup {"source_language", "confidence", "extraction_notes"} |->
        CASE k = "Original File Name" -> s_invented
          [] k = "Term Type" -> s_Fixed
          [] k = "Expiration Date" -> s_date
          [] k = "source_language" -> s_sv
          [] k = "confidence" -> s_high
          [] OTHER -> s_v]

\* a null file name, a perpetual term with an expiration date, an unknown
\* confidence value, the other fields absent
J_partial ==
    [k \in {"Original File Name", "Term Type", "Expiration Date", "confidence"} |->
        CASE k = "Original File Name" -> None
          [] k = "Term Type" -> s_Perpetual
          [] k = "Expiration Date" -> s_date
          [] OTHER -> s_certain]

\* null source_language and null confidence
J_nulls == [k \in {"source_language", "confidence"} |-> None]

\* a reply of the chat-completions call: a JSON object, or an exception
LLMReplies(JSONS, ERRS) ==
    {[kind |-> "object", obj |-> j, msg |-> None] : j \in JSONS}
    \cup {[kind |-> "error", obj |-> NoDict, msg |-> e] : e \in ERRS}

\* a reply of the translation call: text, no content, or an exception
TranslationReplies(ERRS) ==
    {[kind |-> "content", content |-> t, msg |-> None] : t \in {s_english, None}}
    \cup {[kind |-> "error", content |-> None, msg |-> e] : e \in ERRS}

(***************************************************************************)
(* File reader.                                                            *)
(***************************************************************************)
Ret(text, error) == [raised |-> FALSE, text |-> text, error |-> error]

Raise(msg) == [raised |-> TRUE, text |-> None, error |-> msg]

\* decoding or parsing fetched bytes, by what the bytes hold
FromBytes(content) ==
    CASE content = "text" -> {Ret(s_text, None)}
      [] content = "empty" -> {Ret(<<>>, None)}
      [] OTHER -> {Ret(None, e_decode)}

\* reading a local file: what the file system gives at this call
FromPath(ERRS) == {Ret(s_text, None), Ret(<<>>, None)} \cup {Ret(None, e) : e \in ERRS}

extract_text_from_docx(file_data, ERRS) ==
    IF file_data.kind = "bytes" THEN FromBytes(file_data.content) ELSE FromPath(ERRS)

\* (a changed extract_text_from_pdf: the client is used without the test)
extract_text_from_pdf_unchecked(file_data, blob_url, ERRS) ==
    {Ret(s_text, None), Ret(<<>>, None)} \cup {Ret(None, e) : e \in ERRS}

\* if not doc_client: return None, "Document Intelligence not configured"

extract_text_from_pdf(file_data, blob_url, ERRS) ==
    IF ~config.doc_client THEN {Ret(None, s_not_configured)}
    ELSE {Ret(s_text, None), Ret(<<>>, None)} \cup {Ret(None, e) : e \in ERRS}

\* (a changed ByExtension: a file of another type is read as text)
ByExtensionAsText(file_data, ext, blob_url, ERRS) ==
    IF file_data.kind = "bytes" THEN FromBytes(file_data.content) ELSE FromPath(ERRS)

\* the branches on ext, the same for bytes and for a local path
ByExtension(file_data, ext, blob_url, ERRS) ==
    CASE ext = s_txt ->
            IF file_data.kind = "bytes" THEN FromBytes(file_data.content) ELSE FromPath(ERRS)
      [] ext = s_docx -> extract_text_from_docx(file_data, ERRS)
      [] ext = s_pdf -> extract_text_from_pdf(file_data, blob_url, ERRS)
      [] OTHER -> {Ret(None, s_unsupported \o ext)}

\* the set of results read_contract_file can give
read_contract_file(file_data, extension, blob_url, ERRS) ==
    IF file_data.kind = "bytes"
    THEN IF Falsy(extension) THEN {Ret(None, s_ext_required)}
         ELSE ByExtension(file_data, Lower(extension), blob_url, ERRS)
    ELSE IF file_data.kind = "none" /\ ~Falsy(blob_url)
    THEN IF Falsy(extension) THEN {Ret(None, s_ext_required_url)}
         ELSE IF Lower(extension) = s_pdf
              THEN extract_text_from_pdf(file_data, blob_url, ERRS)
              ELSE {Ret(None, s_blob_only \o Lower(extension))}
    ELSE IF file_data.kind = "none" THEN {Raise(e_path)}
         ELSE ByExtension(file_data, Lower(Suffix(file_data.path)), blob_url, ERRS)

(***************************************************************************)
(* Extraction strategies.                                                  *)
(***************************************************************************)
Pair(metadata, error) == [metadata |-> metadata, error |-> error]

\* (a changed extract_metadata_direct: the model's 'Original File Name' is kept)
extract_metadata_direct_kept(reply, file_name) ==
    IF reply.kind = "object"
    THEN Pair(Put(Put(reply.obj, "file_name", file_name), "extraction_timestamp", s_ts), None)
    ELSE Pair(NoDict, IF IsRateLimit(reply.msg) THEN reply.msg \o s_rate_suffix
                      ELSE reply.msg)

extract_metadata_direct(reply, file_name) ==
    IF reply.kind = "object"
    THEN Pair(Put(Put(Put(reply.obj, "file_name", file_name),
                      "extraction_timestamp", s_ts),
                  "Original File Name", file_name), None)
    ELSE Pair(NoDict, IF IsRateLimit(reply.msg) THEN reply.msg \o s_rate_suffix
                      ELSE reply.msg)

extract_metadata_from_english(reply, file_name) ==
    IF reply.kind = "object"
    THEN Pair(Put(Put(Put(Put(reply.obj, "file_name", file_name),
                          "extraction_timestamp", s_ts),
                      "extraction_method", s_two_call),
                  "Original File Name", file_name), None)
    ELSE Pair(NoDict, reply.msg)

\* (translation, trans_error)
translate_to_english(reply) ==
    IF reply.kind = "content" THEN <<reply.content, None>> ELSE <<None, reply.msg>>

\* (a changed UseTwoCall: after a retry the two-call strategy is used)
UseTwoCallAfterRetry(extension) ==
    \/ config.ALWAYS_USE_TWO_CALL \/ (Lower(extension) = s_pdf /\ config.USE_TWO_CALL_FOR_PDFS)
    \/ \E i \in DOMAIN job : job[i].retried # <<>>

UseTwoCall(extension) ==
    config.ALWAYS_USE_TWO_CALL \/ (Lower(extension) = s_pdf /\ config.USE_TWO_CALL_FOR_PDFS)

(***************************************************************************)
(* process_contract_with_retry: the records it returns.                    *)
(***************************************************************************)
FolderPath(file_name) ==
    IF Contains(file_name, <<"/">>) \/ Contains(file_name, <<"\\">>)
    THEN Dirname(file_name) ELSE <<>>

\* (a changed FailureRecord: the error description is left out)
FailureRecordNoError(file_name, error) ==
    [k \in {"Folder Path", "File Name"} |->
        IF k = "Folder Path" THEN FolderPath(file_name) ELSE Basename(file_name)]

FailureRecord(file_name, error) ==
    [k \in {"Folder Path", "File Name", "Error"} |->
        CASE k = "Folder Path" -> FolderPath(file_name)
          [] k = "File Name" -> Basename(file_name)
          [] OTHER -> error]

\* the value of a schema field in the row
FieldValue(metadata, field) == Get(metadata, field, <<>>)

\* (a changed BuildRow: only the fields the model returned get a key)
BuildRowReturned(file_name, metadata) ==
    [k \in {"Folder Path", "File Name", "Source Language", "Extraction Timestamp",
            "Confidence", "Notes"} \cup (Range(SIRION_FIELDS) \cap DOMAIN metadata) |->
        CASE k = "Folder Path" -> FolderPath(file_name)
          [] k = "File Name" -> Basename(file_name)
          [] k = "Source Language" -> Get(metadata, "source_language", s_unknown)
          [] k = "Extraction Timestamp" -> Get(metadata, "extraction_timestamp", <<>>)
          [] k = "Confidence" -> Get(metadata, "confidence", s_medium)
          [] k = "Notes" -> Get(metadata, "extraction_notes", <<>>)
          [] OTHER -> FieldValue(metadata, k)]

BuildRow(file_name, metadata) ==
    [k \in {"Folder Path", "File Name", "Source Language", "Extraction Timestamp",
            "Confidence", "Notes"} \cup Range(SIRION_FIELDS) |->
        CASE k = "Folder Path" -> FolderPath(file_name)
          [] k = "File Name" -> Basename(file_name)
          [] k = "Source Language" -> Get(metadata, "source_language", s_unknown)
          [] k = "Extraction Timestamp" -> Get(metadata, "extraction_timestamp", <<>>)
          [] k = "Confidence" -> Get(metadata, "confidence", s_medium)
          [] k = "Notes" -> Get(metadata, "extraction_notes", <<>>)
          [] OTHER -> FieldValue(metadata, k)]

RECURSIVE Pow2(_)
Pow2(n) == IF n = 0 THEN 1 ELSE 2 * Pow2(n - 1)

\* (a changed WaitTime: the same delay before every retry)
WaitTimeFlat(attempt) == RETRY_DELAY

\* wait_time = RETRY_DELAY * (2 ** (attempt - 1))
WaitTime(attempt) == RETRY_DELAY * Pow2(attempt - 1)

\* the retry test on a reported extraction error
ShouldRetry(attempt, error) ==
    attempt < MAX_RETRIES /\ (Contains(Lower(error), s_rate) \/ Contains(error, s_429))

\* (a changed ShouldRetryException: the last attempt is retried as well)
ShouldRetryExceptionAlways(attempt) == attempt <= MAX_RETRIES

\* the retry test of the except clause
ShouldRetryException(attempt) == attempt < MAX_RETRIES

(***************************************************************************)
(* The frame of one call of process_contract_with_retry.                   *)
(*   pc: queued (not called yet), read, translate, extract (blocked in     *)
(*       that call), incr (waiting for the tracker's lock), locked (in     *)
(*       increment, holding it), sleep (in time.sleep), done (returned)    *)
(*   cont: what follows the increment: "status" (the success branch, which *)
(*       goes on to format the status line) or "return"                    *)
(*   delays, retried: the wait_time of every time.sleep so far, and the    *)
(*       branch that slept ("extract": the rate-limit elif, "exception":   *)
(*       the except clause; they print different lines)                    *)
(*   observed: the error the current attempt ended with (as the step that  *)
(*       failed gave it), the step (read, translate, extract, exception)   *)
(*       and the attempt                                                   *)
(***************************************************************************)
NoError == [att |-> 0, step |-> "none", msg |-> None]

NewJob ==
    [pc |-> "queued", attempt |-> 0, metadata |-> NoDict, pending |-> NoDict,
     cont |-> "return", ret |-> NoDict, delays |-> <<>>, retried |-> <<>>,
     tmp |-> 0, observed |-> NoError]

\* (a changed Called: a call made while a pool thread is busy gives up at once)
CalledWhenIdle(j, file_name) ==
    IF \E w \in DOMAIN worker : worker[w] # 0
    THEN [j EXCEPT !.pc = "done", !.ret = FailureRecord(file_name, s_max_retries)]
    ELSE [j EXCEPT !.pc = "read", !.attempt = 1]

\* the call: the loop runs for attempt = 1..MAX_RETRIES, and a loop that
\* runs no attempt falls through to the record after it
Called(j, file_name) ==
    IF MAX_RETRIES >= 1
    THEN [j EXCEPT !.pc = "read", !.attempt = 1]
    ELSE [j EXCEPT !.pc = "done", !.ret = FailureRecord(file_name, s_max_retries)]

\* the text of the 'Error' key, by the step that failed
ErrorText(step, error) ==
    CASE step = "read" -> s_read_prefix \o Str(error)
      [] step = "translate" -> s_trans_prefix \o Str(error)
      [] OTHER -> error

\* (a changed Fails: the failure aborts the call, which never returns)
FailsAborting(j, file_name, step, error) ==
    [j EXCEPT !.pc = "aborted",
              !.observed = [att |-> j.attempt, step |-> step, msg |-> error]]

\* a failure record is built; the tracker is incremented before it is returned
Fails(j, file_name, step, error) ==
    [j EXCEPT !.pc = "incr", !.cont = "return", !.metadata = NoDict,
              !.pending = FailureRecord(file_name, ErrorText(step, error)),
              !.observed = [att |-> j.attempt, step |-> step, msg |-> error]]

\* time.sleep(wait_time); continue
Backoff(j, step, error) ==
    [j EXCEPT !.pc = "sleep", !.metadata = NoDict, !.pending = NoDict,
              !.delays = Append(@, WaitTime(j.attempt)),
              !.retried = Append(@, step),
              !.observed = [att |-> j.attempt, step |-> step, msg |-> error]]

\* the elif / else after the extraction call returned no metadata
OnError(j, file_name, error) ==
    IF ShouldRetry(j.attempt, error) THEN Backoff(j, "extract", error)
    ELSE Fails(j, file_name, "extract", error)

\* (a changed OnException: an exception ends the call at once)
OnExceptionFails(j, file_name, msg) == Fails(j, file_name, "exception", msg)

\* the except clause
OnException(j, file_name, msg) ==
    IF ShouldRetryException(j.attempt) THEN Backoff(j, "exception", msg)
    ELSE Fails(j, file_name, "exception", msg)

\* after save_text_as_markdown returned (its result is not looked at), or
\* without it: the strategy is chosen and its first call is made
AfterSave(j, info) ==
    IF info.extension = None THEN OnException(j, info.name, e_lower)
    ELSE IF UseTwoCall(info.extension) THEN [j EXCEPT !.pc = "translate"]
    ELSE [j EXCEPT !.pc = "extract"]

\* (a changed AfterRead: only a reported read error ends the call)
AfterReadOnError(j, info, o) ==
    IF o.raised THEN OnException(j, info.name, o.error)
    ELSE IF o.text = None THEN Fails(j, info.name, "read", o.error)
    ELSE IF config.SAVE_MARKDOWN THEN [j EXCEPT !.pc = "save"]
    ELSE AfterSave(j, info)

\* after read_contract_file returned
AfterRead(j, info, o) ==
    IF o.raised THEN OnException(j, info.name, o.error)
    ELSE IF Falsy(o.text) THEN Fails(j, info.name, "read", o.error)
    ELSE IF config.SAVE_MARKDOWN THEN [j EXCEPT !.pc = "save"]
    ELSE AfterSave(j, info)

\* (a changed AfterTranslate: a failed translation goes through the retry test)
AfterTranslateRetried(j, info, t) ==
    IF Falsy(t[1])
    THEN IF ShouldRetry(j.attempt, Str(t[2])) THEN Backoff(j, "translate", t[2])
         ELSE Fails(j, info.name, "translate", t[2])
    ELSE [j EXCEPT !.pc = "extract"]

\* after translate_to_english returned
AfterTranslate(j, info, t) ==
    IF Falsy(t[1]) THEN Fails(j, info.name, "translate", t[2])
    ELSE [j EXCEPT !.pc = "extract"]

\* after the extraction call returned (metadata, error)
AfterExtract(j, info, r) ==
    IF Truthy(r.metadata)
    THEN [j EXCEPT !.pc = "incr", !.cont = "status", !.metadata = r.metadata,
                   !.pending = BuildRow(info.name, r.metadata)]
    ELSE OnError(j, info.name, r.error)

\* after progress_tracker.increment() returned: the success branch formats
\* the status line with source_language.upper(), then returns the row
AfterIncrement(j, info) ==
    IF j.cont = "status" /\ Get(j.metadata, "source_language", s_unknown) = None
    THEN OnException(j, info.name, e_upper)
    ELSE [j EXCEPT !.pc = "done", !.ret = j.pending, !.pending = NoDict]

(***************************************************************************)
(* Replies the collaborators give in a batch run.                          *)
(***************************************************************************)
ServiceErrors == {e_429, e_json}

ModelJSONs == {J_complete, J_nulls}

FetchedContents == {"text", "bad"}

(***************************************************************************)
(* The orchestrator: enumeration and work items.                           *)
(***************************************************************************)
Names == <<n_a, n_b, n_c, n_d>>

\* (a changed Supported: every listed file is taken)
SupportedAny(name) == TRUE

\* ext in ['.txt', '.docx', '.pdf']
Supported(name) == Lower(Suffix(name)) \in {s_txt, s_docx, s_pdf}

NoData == [kind |-> "none", content |-> "", path |-> <<>>]

Bytes(content) == [kind |-> "bytes", content |-> content, path |-> <<>>]

LocalPath(p) == [kind |-> "path", content |-> "", path |-> p]

FileInfo(name, data, extension, blob_url) ==
    [name |-> name, data |-> data, extension |-> extension, blob_url |-> blob_url]

\* the work items the preparation loop can build for one blob: a PDF carries
\* its URL and no data, another file its downloaded bytes, and a blob whose
\* download raised carries nothing
PreparedInfos(name, CONTENTS) ==
    LET extension == Lower(Suffix(name)) IN
    IF extension = s_pdf
    THEN {FileInfo(name, NoData, extension, <<"u", "r", "l">>)}
    ELSE {FileInfo(name, Bytes(c), extension, None) : c \in CONTENTS}
         \cup {FileInfo(name, NoData, None, None)}

NotWritten == [written |-> FALSE, rows |-> <<>>, count |-> 0]

\* a storage client and an empty markdown container
NoMarkdown == [client |-> TRUE, blobs |-> {}]

\* nothing counted yet
NoSummary ==
    [success_count |-> 0, error_count |-> 0, languages |-> EmptyDict,
     confidences |-> EmptyDict]

Items == 1..Len(file_infos)

\* the state when the orchestrator is called
Start ==
    /\ opc = "start"
    /\ file_infos = <<>>
    /\ queue = <<>>
    /\ worker = [w \in 1..MAX_WORKERS |-> 0]
    /\ cur = 0
    /\ job = <<>>
    /\ progress = [total |-> 0, completed |-> 0, lock |-> 0]
    /\ results = <<>>
    /\ origin = <<>>
    /\ csv_file = NotWritten
    /\ failed_file = NotWritten
    /\ summary = NoSummary
    /\ output_csv = o_csv
    /\ markdown = NoMarkdown

\* the first n documents of the source
Batch(n) == [k \in 1..n |-> Names[((k - 1) % Len(Names)) + 1]]

\* what the source can hold: up to NumItems documents, nothing, or a file of
\* another type alone or before a document
Listings == {Batch(n) : n \in 0..NumItems} \cup {<<n_x>>, <<n_x>> \o Batch(1)}

\* a run under the default strategy flags and without the markdown copies,
\* with or without the OCR client
Init ==
    /\ config \in [ALWAYS_USE_TWO_CALL : {FALSE}, USE_TWO_CALL_FOR_PDFS : {TRUE},
                   doc_client : BOOLEAN, SAVE_MARKDOWN : {FALSE}]
    /\ listing \in Listings
    /\ parallel \in BOOLEAN
    /\ Start

\* enumerate, filter by extension, build the work items and the tracker; with
\* nothing left after the filter the orchestrator returns None at once
Prepare(CONTENTS) ==
    /\ opc = "start"
    /\ LET blobs == SelectSeq(listing, Supported) IN
       IF blobs = <<>>
       THEN /\ opc' = "none"
            /\ UNCHANGED <<file_infos, job, progress>>
       ELSE /\ \E infos \in {[k \in 1..Len(blobs) |-> PreparedInfos(blobs[k], CONTENTS)]} :
                  file_infos' \in {f \in [1..Len(blobs) -> UNION Range(infos)] :
                                      \A k \in 1..Len(blobs) : f[k] \in infos[k]}
            /\ job' = [k \in 1..Len(blobs) |-> NewJob]
            /\ progress' = [total |-> Len(blobs), completed |-> 0, lock |-> 0]
            /\ opc' = "dispatch"
    /\ UNCHANGED <<config, listing, parallel, queue, worker, cur, results, origin,
                   csv_file, failed_file, summary, output_csv, markdown>>

\* (a changed UsePool: the pool whenever parallel mode is requested)
UsePoolWhenParallel == parallel

\* if parallel and len(file_infos) > 1
UsePool == parallel /\ Len(file_infos) > 1

\* executor.submit for every work item
SubmitAll ==
    /\ opc = "dispatch"
    /\ UsePool
    /\ queue' = [k \in 1..Len(file_infos) |-> k]
    /\ opc' = "collect"
    /\ UNCHANGED <<config, listing, parallel, file_infos, worker, cur, job, progress,
                   results, origin, csv_file, failed_file, summary, output_csv, markdown>>

\* the sequential loop is entered
SeqStart ==
    /\ opc = "dispatch"
    /\ ~UsePool
    /\ opc' = "seq"
    /\ cur' = 1
    /\ UNCHANGED <<config, listing, parallel, file_infos, queue, worker, job, progress,
                   results, origin, csv_file, failed_file, summary, output_csv, markdown>>

\* the calling thread calls process_contract_with_retry for the next item
SeqCall ==
    /\ opc = "seq"
    /\ cur \in Items
    /\ job[cur].pc = "queued"
    /\ job' = [job EXCEPT ![cur] = Called(@, file_infos[cur].name)]
    /\ UNCHANGED <<config, listing, parallel, opc, file_infos, queue, worker, cur,
                   progress, results, origin, csv_file, failed_file, summary, output_csv, markdown>>

\* (a changed AfterCollect: the report is started once every submitted item
\* was taken by a pool thread)
AfterCollectSubmitted(n) == IF queue = <<>> THEN "report" ELSE opc

\* (a changed AfterCollect: the report is started on the first result)
AfterCollectFirst(n) == "report"

\* where the orchestrator goes when the last result is in
AfterCollect(n) == IF n = Len(file_infos) THEN "report" ELSE opc

\* results.append(process_contract_with_retry(file_info, progress))
SeqReturn ==
    /\ opc = "seq"
    /\ cur \in Items
    /\ job[cur].pc = "done"
    /\ results' = Append(results, job[cur].ret)
    /\ origin' = Append(origin, cur)
    /\ cur' = cur + 1
    /\ opc' = AfterCollect(Len(results) + 1)
    /\ UNCHANGED <<config, listing, parallel, file_infos, queue, worker, job, progress,
                   csv_file, failed_file, summary, output_csv, markdown>>

\* an idle pool thread (the threads are interchangeable: the first idle one)
\* takes the next submitted item and calls the function
Take(w) ==
    /\ opc = "collect"
    /\ worker[w] = 0
    /\ \A v \in 1..(w - 1) : worker[v] # 0
    /\ queue # <<>>
    /\ worker' = [worker EXCEPT ![w] = Head(queue)]
    /\ queue' = Tail(queue)
    /\ job' = [job EXCEPT ![Head(queue)] = Called(@, file_infos[Head(queue)].name)]
    /\ UNCHANGED <<config, listing, parallel, opc, file_infos, cur, progress, results,
                   origin, csv_file, failed_file, summary, output_csv, markdown>>

\* as_completed yields a finished future; its result is appended
Collect(i) ==
    /\ opc = "collect"
    /\ job[i].pc = "done"
    /\ i \notin Range(origin)
    /\ results' = Append(results, job[i].ret)
    /\ origin' = Append(origin, i)
    /\ opc' = AfterCollect(Len(results) + 1)
    /\ UNCHANGED <<config, listing, parallel, file_infos, queue, worker, cur, job,
                   progress, csv_file, failed_file, summary, output_csv, markdown>>

(***************************************************************************)
(* Steps of process_contract_with_retry, each the return of the call the   *)
(* thread was blocked in.                                                  *)
(***************************************************************************)
\* (a changed Released: a thread whose call sleeps is idle as well)
ReleasedInBackoff(i, j) ==
    [w \in DOMAIN worker |-> IF worker[w] = i /\ j.pc \in {"done", "sleep"} THEN 0 ELSE worker[w]]

\* a pool thread whose call returned is idle again
Released(i, j) == [w \in DOMAIN worker |-> IF worker[w] = i /\ j.pc = "done" THEN 0 ELSE worker[w]]

Step(i, j) ==
    /\ job' = [job EXCEPT ![i] = j]
    /\ worker' = Released(i, j)
    /\ UNCHANGED <<config, listing, parallel, opc, file_infos, queue, cur, results,
                   origin, csv_file, failed_file, summary, output_csv, markdown>>

Read(i, ERRS) ==
    /\ i \in Items
    /\ job[i].pc = "read"
    /\ \E o \in read_contract_file(file_infos[i].data, file_infos[i].extension,
                                   file_infos[i].blob_url, ERRS) :
          Step(i, AfterRead(job[i], file_infos[i], o))
    /\ UNCHANGED progress

Translate(i, ERRS) ==
    /\ i \in Items
    /\ job[i].pc = "translate"
    /\ \E reply \in TranslationReplies(ERRS) :
          Step(i, AfterTranslate(job[i], file_infos[i], translate_to_english(reply)))
    /\ UNCHANGED progress

Extract(i, JSONS, ERRS) ==
    /\ i \in Items
    /\ job[i].pc = "extract"
    /\ \E reply \in LLMReplies(JSONS, ERRS) :
          \E r \in {IF UseTwoCall(file_infos[i].extension)
                    THEN extract_metadata_from_english(reply, file_infos[i].name)
                    ELSE extract_metadata_direct(reply, file_infos[i].name)} :
              Step(i, AfterExtract(job[i], file_infos[i], r))
    /\ UNCHANGED progress

\* save_text_as_markdown(text, blob_name): its return value and the container
\* after it. The blob written names its source file in its header; upload_blob
\* with overwrite = True replaces a blob of the same name. outcome is what
\* the storage service does: "stored", or "raised" for any exception.
save_text_as_markdown(store, blob_name, outcome) ==
    IF ~store.client \/ ~config.SAVE_MARKDOWN
    THEN [ret |-> FALSE, store |-> store]
    ELSE IF outcome = "raised"
    THEN [ret |-> FALSE, store |-> store]
    ELSE LET markdown_name == splitext(blob_name)[1] \o s_md
         IN  [ret |-> TRUE,
              store |-> [store EXCEPT !.blobs =
                            {b \in @ : b.name # markdown_name}
                            \cup {[name |-> markdown_name, source |-> blob_name]}]]

\* (a changed Saved: a save that returned False is raised as an error)
SavedChecked(j, info, ret) ==
    IF ret THEN AfterSave(j, info) ELSE OnException(j, info.name, e_decode)

\* the statement save_text_as_markdown(contract_text, file_name): the value
\* returned is not bound to anything
Saved(j, info, ret) == AfterSave(j, info)

\* if SAVE_MARKDOWN: save_text_as_markdown(contract_text, file_name), then
\* the strategy test
Save(i, OUTCOMES) ==
    /\ i \in Items
    /\ job[i].pc = "save"
    /\ \E outcome \in OUTCOMES :
          \E r \in {save_text_as_markdown(markdown, file_infos[i].name, outcome)} :
              /\ markdown' = r.store
              /\ \E j \in {Saved(job[i], file_infos[i], r.ret)} :
                    /\ job' = [job EXCEPT ![i] = j]
                    /\ worker' = Released(i, j)
    /\ UNCHANGED <<config, listing, parallel, opc, file_infos, queue, cur, results,
                   origin, csv_file, failed_file, summary, output_csv, progress>>

\* (a changed NextAttempt: the text and the translation of the attempt
\* before are kept and the attempt resumes at the extraction call)
NextAttemptResumed(j) ==
    [j EXCEPT !.pc = IF "extract" \in Range(j.retried) THEN "extract" ELSE "read",
              !.attempt = @ + 1, !.observed = NoError]

\* continue: the loop body runs again from its first statement, the read
NextAttempt(j) == [j EXCEPT !.pc = "read", !.attempt = @ + 1, !.observed = NoError]

\* the backoff delay is over: the next attempt starts with the read
Wake(i) ==
    /\ i \in Items
    /\ job[i].pc = "sleep"
    /\ Step(i, NextAttempt(job[i]))
    /\ UNCHANGED progress

\* (a changed LockFree: the tracker is not entered while a call sleeps)
LockFreeNoSleeper == progress.lock = 0 /\ \A k \in Items : job[k].pc # "sleep"

\* (a changed LockFree: increment without the lock)
LockFreeAlways == TRUE

\* increment(): with self.lock, and the read of self.completed += 1
LockFree == progress.lock = 0

\* the tracker when thread i has acquired the lock
Acquired(i) == [progress EXCEPT !.lock = i]

\* (a changed Incremented: the lock is kept after the write)
IncrementedHeld(read) == [progress EXCEPT !.completed = read + 1]

\* the tracker when the thread that read `read` has written and released
Incremented(read) == [progress EXCEPT !.completed = read + 1, !.lock = 0]

IncrementEnter(i) ==
    /\ i \in Items
    /\ job[i].pc = "incr"
    /\ LockFree
    /\ progress' = Acquired(i)
    /\ Step(i, [job[i] EXCEPT !.pc = "locked", !.tmp = progress.completed])

\* the write of self.completed += 1, return self.completed, the lock is
\* released, and the caller goes on to its return
IncrementExit(i) ==
    /\ i \in Items
    /\ job[i].pc = "locked"
    /\ progress' = Incremented(job[i].tmp)
    /\ Step(i, AfterIncrement([job[i] EXCEPT !.tmp = 0], file_infos[i]))

(***************************************************************************)
(* The report.                                                             *)
(***************************************************************************)
Failed(r) == "Error" \in DOMAIN r

\* sum(1 for r in results if 'Error' in r) over the first k results
RECURSIVE ErrorCount(_, _)
ErrorCount(rs, k) ==
    IF k = 0 THEN 0 ELSE ErrorCount(rs, k - 1) + (IF "Error" \in DOMAIN rs[k] THEN 1 ELSE 0)

\* sum(1 for r in results if 'Error' not in r) over the first k results
RECURSIVE SuccessCount(_, _)
SuccessCount(rs, k) ==
    IF k = 0 THEN 0 ELSE SuccessCount(rs, k - 1) + (IF "Error" \notin DOMAIN rs[k] THEN 1 ELSE 0)

\* csv.DictWriter(fieldnames=csv_columns, extrasaction='ignore'): a missing
\* key and a None value are written as the empty string
CsvRow(r) ==
    [c \in 1..Len(csv_columns) |->
        LET v == Get(r, csv_columns[c], <<>>) IN IF v = None THEN <<>> ELSE v]

\* writer.writerows(results)
WrittenRows(rs) == [k \in 1..Len(rs) |-> CsvRow(rs[k])]

\* (a changed FailedContracts: every result is listed)
FailedContractsAll(rs) ==
    [k \in 1..Len(rs) |->
        Get(rs[k], "File Name", Get(rs[k], "Folder Path", <<"U", "n", "k", "n", "o", "w", "n">>))]

FailedContracts(rs) ==
    LET failures == SelectSeq(rs, Failed)
    IN  [k \in 1..Len(failures) |->
            Get(failures[k], "File Name", Get(failures[k], "Folder Path", <<"U", "n", "k", "n", "o", "w", "n">>))]

\* languages[lang] = languages.get(lang, 0) + 1 over the rows with a
\* 'Source Language'
Languages(rs) ==
    LET with == {k \in 1..Len(rs) : "Source Language" \in DOMAIN rs[k]}
    IN  [l \in {rs[k]["Source Language"] : k \in with} |->
            Cardinality({k \in with : rs[k]["Source Language"] = l})]

\* confidences = {'high': 0, 'medium': 0, 'low': 0}, then
\* if conf in confidences: confidences[conf] += 1
Confidences(rs) ==
    [c \in {s_high, s_medium, s_low} |->
        Cardinality({k \in 1..Len(rs) : /\ "Confidence" \in DOMAIN rs[k]
                                        /\ rs[k]["Confidence"] = c})]
\* the name of the failure list: output_csv.replace('.csv',
\* '_failed_contracts.txt')
FailedFilePath(output) == Replace(output, s_csv, s_failed_contracts)

\* the counts, the two files, and the statistics printed when something
\* succeeded
WriteReport ==
    /\ opc = "report"
    /\ LET error_count == ErrorCount(results, Len(results))
           success_count == SuccessCount(results, Len(results))
           counted == results # <<>> /\ success_count > 0
       IN
       /\ summary' = [success_count |-> success_count,
                      error_count |-> error_count,
                      languages |-> IF counted THEN Languages(results) ELSE EmptyDict,
                      confidences |-> IF counted THEN Confidences(results) ELSE EmptyDict]
       /\ \E report \in {[written |-> TRUE, rows |-> WrittenRows(results), count |-> 0]},
             list \in {[written |-> TRUE, rows |-> FailedContracts(results),
                        count |-> error_count]} :
             IF results = <<>>
             THEN UNCHANGED <<csv_file, failed_file>>
             ELSE IF error_count > 0
             THEN /\ failed_file' = list
                  /\ csv_file' = IF FailedFilePath(output_csv) = output_csv
                                 THEN list ELSE report
             ELSE /\ csv_file' = report
                  /\ failed_file' = IF FailedFilePath(output_csv) = output_csv
                                    THEN report ELSE failed_file
    /\ opc' = "done"
    /\ UNCHANGED <<config, listing, parallel, file_infos, queue, worker, cur, job,
                   progress, results, origin, output_csv, markdown>>

(***************************************************************************)
(* The batch run.                                                          *)
(***************************************************************************)
Next ==
    \/ Prepare(FetchedContents)
    \/ SubmitAll
    \/ SeqStart
    \/ SeqCall
    \/ SeqReturn
    \/ \E w \in 1..MAX_WORKERS : Take(w)
    \/ \E i \in Items : Collect(i)
    \/ \E i \in Items : Read(i, ServiceErrors)
    \/ \E i \in Items : Translate(i, ServiceErrors)
    \/ \E i \in Items : Extract(i, ModelJSONs, ServiceErrors)
    \/ \E i \in Items : Wake(i)
    \/ \E i \in Items : IncrementEnter(i)
    \/ \E i \in Items : IncrementExit(i)
    \/ WriteReport

Spec == Init /\ [][Next]_vars

(***************************************************************************)
(* Scheduling: the orchestrator thread and every thread running an item    *)
(* keep taking steps (each external call returns, each sleep ends, the     *)
(* lock is handed over).                                                   *)
(***************************************************************************)
Orchestrator ==
    \/ Prepare(FetchedContents)
    \/ SubmitAll
    \/ SeqStart
    \/ SeqCall
    \/ SeqReturn
    \/ \E w \in 1..MAX_WORKERS : Take(w)
    \/ \E i \in Items : Collect(i)
    \/ WriteReport

Thread(i) ==
    \/ Read(i, ServiceErrors)
    \/ Translate(i, ServiceErrors)
    \/ Extract(i, ModelJSONs, ServiceErrors)
    \/ Wake(i)
    \/ IncrementEnter(i)
    \/ IncrementExit(i)

Fairness == WF_vars(Orchestrator) /\ \A i \in 1..NumItems : WF_vars(Thread(i))

SpecFair == Init /\ [][Next]_vars /\ Fairness

(***************************************************************************)
(* One document under every configuration, with every reply the            *)
(* collaborators can give: a batch of one runs on the calling thread.      *)
(***************************************************************************)
AllErrors == {e_429, e_RateLimit, e_401, e_json}

AllJSONs == {J_complete, J_partial, J_nulls, EmptyDict}

AllContents == {"text", "empty", "bad"}

InitItem ==
    /\ config \in [ALWAYS_USE_TWO_CALL : BOOLEAN, USE_TWO_CALL_FOR_PDFS : BOOLEAN,
                   doc_client : BOOLEAN, SAVE_MARKDOWN : {FALSE}]
    /\ listing \in {<<Names[k]>> : k \in 1..Len(Names)}
    /\ parallel \in BOOLEAN
    /\ Start

NextItem ==
    \/ Prepare(AllContents)
    \/ SeqStart
    \/ SeqCall
    \/ SeqReturn
    \/ Read(1, AllErrors)
    \/ Translate(1, AllErrors)
    \/ Extract(1, AllJSONs, AllErrors)
    \/ Wake(1)
    \/ IncrementEnter(1)
    \/ IncrementExit(1)
    \/ WriteReport

SpecItem == InitItem /\ [][NextItem]_vars

(***************************************************************************)
(* One call of process_contract_with_retry by a caller that built the work *)
(* item itself: a local file as process_contracts_to_csv passes it (the    *)
(* path as data), or bytes with the extension the caller names.            *)
(***************************************************************************)
CallInfos ==
    {FileInfo(n, LocalPath(n), Lower(Suffix(n)), None) : n \in {n_a, n_c, n_d, n_x}}
    \cup {FileInfo(n_a, Bytes(c), s_txt, None) : c \in AllContents}
    \cup {FileInfo(n_x, Bytes("text"), e, None) : e \in {s_md, s_MD}}

InitCall ==
    /\ config \in [ALWAYS_USE_TWO_CALL : {FALSE}, USE_TWO_CALL_FOR_PDFS : {TRUE},
                   doc_client : BOOLEAN, SAVE_MARKDOWN : {FALSE}]
    /\ listing = <<>>
    /\ parallel = FALSE
    /\ opc = "seq"
    /\ file_infos \in {<<f>> : f \in CallInfos}
    /\ queue = <<>>
    /\ worker = [w \in 1..MAX_WORKERS |-> 0]
    /\ cur = 1
    /\ job = <<NewJob>>
    /\ progress = [total |-> 1, completed |-> 0, lock |-> 0]
    /\ results = <<>>
    /\ origin = <<>>
    /\ csv_file = NotWritten
    /\ failed_file = NotWritten
    /\ summary = NoSummary
    /\ output_csv = o_csv
    /\ markdown = NoMarkdown

NextCall ==
    \/ SeqCall
    \/ SeqReturn
    \/ Read(1, AllErrors)
    \/ Translate(1, AllErrors)
    \/ Extract(1, AllJSONs, AllErrors)
    \/ Wake(1)
    \/ IncrementEnter(1)
    \/ IncrementExit(1)
    \/ WriteReport

SpecCall == InitCall /\ [][NextCall]_vars

(***************************************************************************)
(* Properties.                                                             *)
(***************************************************************************)
Collected == opc \in {"report", "done"} /\ file_infos # <<>>

Returned(i) == job[i].pc = "done"

Success(r) == r # NoDict /\ "Error" \notin DOMAIN r

\* C1: when the orchestrator has finished collecting, parallel or
\* sequential, results holds exactly one result per submitted work item:
\* as many results as work items, every work item the origin of exactly one
\* of them, each the record that item's call returned.
C1_OneResultPerItem ==
    Collected =>
        /\ Len(results) = Len(file_infos)
        /\ Len(origin) = Len(results)
        /\ \A i \in Items : Cardinality({k \in 1..Len(origin) : origin[k] = i}) = 1
        /\ \A k \in 1..Len(results) :
              /\ Returned(origin[k])
              /\ results[k] = job[origin[k]].ret
              /\ results[k] # NoDict

\* a parallel batch collected out of submission order, with a success, and
\* a failure that came from a raised exception
C1_Witness ==
    /\ opc = "done" /\ parallel /\ Len(results) = NumItems
    /\ origin[1] # 1
    /\ \E k \in 1..Len(results) : Success(results[k])
    /\ \E k \in 1..Len(results) :
          Failed(results[k]) /\ job[origin[k]].observed.step = "exception"

\* C2: the table written at the end of a batch has a row only for a
\* Success: as many rows as successes, none for a failed document.
C2_RowsOnlyForSuccesses ==
    csv_file.written =>
        /\ Len(csv_file.rows) = SuccessCount(results, Len(results))
        /\ \A k \in 1..Len(csv_file.rows) : Success(results[k])

\* C7: the progress counter stays within 0..total.
C7_CompletedWithinTotal ==
    0 <= progress.completed /\ progress.completed <= progress.total

(***************************************************************************)
(* Retry behaviour of one call.                                            *)
(***************************************************************************)
\* the rate-limit test on an error text
RateFlavoured(e) == Contains(Lower(Str(e)), s_rate) \/ Contains(Str(e), s_429)

\* the call is past its last attempt: a failure record is built and only the
\* tracker's increment and the return remain
Terminal(j) == j.pc \in {"incr", "locked", "done"} /\ j.cont = "return"

\* the record the call returns, or is about to return
Outcome(j) == IF j.pc = "done" THEN j.ret ELSE j.pending

\* delay(n) = RETRY_DELAY * 2^(n-1), for the delays slept so far
Exponential(delays) == \A n \in 1..Len(delays) : delays[n] = RETRY_DELAY * 2^(n - 1)

\* every attempt before the current one ended with a rate-limit error
\* reported by the extraction call
OnlyRateLimited(j) == \A n \in 1..Len(j.retried) : j.retried[n] = "extract"

\* C3 (as amended): an item whose every attempt ends with a rate-limit-
\* flavoured error reported by the extraction call is attempted exactly
\* MAX_RETRIES times, the delay slept before attempt n+1 is
\* RETRY_DELAY * 2^(n-1), and it then becomes a Failure; an item whose first
\* failure is an error reported by the read, the translation or the
\* extraction step that is not a rate-limit error of the extraction becomes
\* a Failure after exactly one attempt with no delay.
C3_RateLimitRetries ==
    \A i \in Items :
        LET j == job[i]
            o == j.observed
        IN  /\ Exponential(j.delays)
            /\ Len(j.retried) = Len(j.delays)
            /\ j.attempt >= 1 =>
                   Len(j.delays) = IF j.pc = "sleep" THEN j.attempt ELSE j.attempt - 1
            /\ (o.step = "extract" /\ RateFlavoured(o.msg) /\ OnlyRateLimited(j)) =>
                   IF o.att < MAX_RETRIES
                   THEN j.pc = "sleep"
                   ELSE /\ Terminal(j)
                        /\ Failed(Outcome(j))
                        /\ j.attempt = MAX_RETRIES
                        /\ Len(j.delays) = MAX_RETRIES - 1
                        /\ \A n \in 1..(Len(j.delays) - 1) : j.delays[n] < j.delays[n + 1]
            /\ (/\ j.retried = <<>>
                /\ \/ o.step \in {"read", "translate"}
                   \/ o.step = "extract" /\ ~RateFlavoured(o.msg)) =>
                   /\ Terminal(j)
                   /\ Failed(Outcome(j))
                   /\ j.attempt = 1
                   /\ j.delays = <<>>

C3_Witness ==
    \E i \in Items :
        /\ job[i].pc = "done"
        /\ Failed(job[i].ret)
        /\ job[i].observed.step = "extract"
        /\ RateFlavoured(job[i].observed.msg)
        /\ job[i].retried = [n \in 1..(MAX_RETRIES - 1) |-> "extract"]
        /\ job[i].delays = [n \in 1..(MAX_RETRIES - 1) |-> RETRY_DELAY * 2^(n - 1)]
        /\ job[i].attempt = MAX_RETRIES

\* C3 (as stated): whatever step an attempt fails in and however it fails, a
\* rate-limit-flavoured error is retried while attempts remain and an error
\* that is not rate-limit-flavoured is never retried.
C3_AsStated ==
    \A i \in Items :
        LET j == job[i]
            o == j.observed
        IN  o.step # "none" =>
                IF RateFlavoured(o.msg)
                THEN o.att < MAX_RETRIES => j.pc = "sleep"
                ELSE Terminal(j) /\ (j.retried = <<>> => j.delays = <<>> /\ j.attempt = 1)

\* C4: when the extraction call reported a rate-limit error on attempts 1..k
\* and returns metadata on attempt k+1, the call returns a Success after
\* exactly the k delays RETRY_DELAY * 2^(n-1), n = 1..k.
C4_SuccessAfterRateLimits ==
    [][\A i \in Items :
          (/\ job[i].pc = "locked"
           /\ job[i].cont = "status"
           /\ job[i].retried # <<>>
           /\ OnlyRateLimited(job[i])
           /\ job'[i].pc # "locked") =>
              /\ job'[i].pc = "done"
              /\ Success(job'[i].ret)
              /\ job'[i].delays = job[i].delays
              /\ Len(job[i].delays) = job[i].attempt - 1
              /\ Exponential(job[i].delays)]_vars

\* C5: a read failure and a translation failure are never retried: the item
\* becomes a Failure in the attempt the step failed in, with no backoff and
\* no further attempt, also when attempts remain and the error text is
\* rate-limit-flavoured.
C5_ReadTranslateNeverRetried ==
    \A i \in Items :
        LET j == job[i]
            o == j.observed
        IN  /\ o.step \in {"read", "translate"} =>
                   /\ Terminal(j)
                   /\ Failed(Outcome(j))
                   /\ j.attempt = o.att
                   /\ Len(j.delays) = o.att - 1
            /\ \A n \in 1..Len(j.retried) : j.retried[n] \notin {"read", "translate"}

C5_Witness ==
    \E i \in Items :
        /\ job[i].pc = "done"
        /\ job[i].observed.step = "translate"
        /\ RateFlavoured(job[i].observed.msg)
        /\ job[i].observed.att = 1
        /\ 1 < MAX_RETRIES
        /\ Failed(job[i].ret)
        /\ job[i].delays = <<>>

\* C6: the number of attempts never exceeds MAX_RETRIES, and when the last
\* permitted attempt fails the item becomes a Failure, whatever the kind of
\* the error, whose 'Error' describes the error of that attempt.
C6_AttemptCap ==
    \A i \in Items :
        LET j == job[i]
            o == j.observed
        IN  /\ j.attempt <= MAX_RETRIES
            /\ (o.step # "none" /\ o.att = MAX_RETRIES) =>
                   /\ Terminal(j)
                   /\ Failed(Outcome(j))
                   /\ Contains(Outcome(j)["Error"], Str(o.msg))
                   /\ o.step \in {"extract", "exception"} => Outcome(j)["Error"] = o.msg

C6_Witness ==
    \E i \in Items :
        /\ job[i].pc = "done"
        /\ job[i].attempt = MAX_RETRIES
        /\ job[i].observed.att = MAX_RETRIES
        /\ job[i].observed.step = "exception"
        /\ "extract" \in Range(job[i].retried)
        /\ Failed(job[i].ret)

(***************************************************************************)
(* The records a call returns.                                             *)
(***************************************************************************)
\* C8: every Success row has a key for every field of SIRION_FIELDS,
\* whatever fields the model's JSON held; a field the model omitted has the
\* empty string as its value.
C8_AllSchemaFields ==
    \A i \in Items :
        LET j == job[i] IN
        (j.pc = "done" /\ Success(j.ret)) =>
            \A n \in 1..Len(SIRION_FIELDS) :
                /\ SIRION_FIELDS[n] \in DOMAIN j.ret
                /\ SIRION_FIELDS[n] \notin DOMAIN j.metadata => j.ret[SIRION_FIELDS[n]] = <<>>

C8_Witness ==
    \E i \in Items :
        /\ job[i].pc = "done"
        /\ Success(job[i].ret)
        /\ \E n \in 1..Len(SIRION_FIELDS) :
              /\ SIRION_FIELDS[n] \notin DOMAIN job[i].metadata
              /\ job[i].ret[SIRION_FIELDS[n]] = <<>>
        /\ \E n \in 1..Len(SIRION_FIELDS) :
              /\ SIRION_FIELDS[n] # "Original File Name"
              /\ SIRION_FIELDS[n] \in DOMAIN job[i].metadata

\* C9: in every Success row, under the direct and the two-call strategy,
\* 'Original File Name' is the name of the work item, whatever the model
\* returned for that field.
C9_OriginalFileName ==
    \A i \in Items :
        (job[i].pc = "done" /\ Success(job[i].ret)) =>
            job[i].ret["Original File Name"] = file_infos[i].name

\* the row of an item for which the model answered J_complete (the only
\* reply with that language), whose file name is an invented one
C9_Witness ==
    \E i \in Items :
        /\ job[i].pc = "done"
        /\ Success(job[i].ret)
        /\ job[i].ret["Source Language"] = s_sv
        /\ J_complete["Original File Name"] # file_infos[i].name
        /\ ~UseTwoCall(file_infos[i].extension)
        /\ job[i].ret["Original File Name"] = file_infos[i].name

SuccessRecord(r) == Range(SIRION_FIELDS) \subseteq DOMAIN r /\ "Error" \notin DOMAIN r

FailureRecordOnly(r) ==
    /\ {"Folder Path", "File Name", "Error"} \subseteq DOMAIN r
    /\ DOMAIN r \cap Range(SIRION_FIELDS) = {}

\* C10: every record a call returns is a Success record (all schema fields,
\* no 'Error') or a Failure record (identity and 'Error', no schema field),
\* never both and never neither; so success_count + error_count is the
\* number of results when the batch ends.
C10_SuccessOrFailure ==
    /\ \A i \in Items :
          job[i].pc = "done" =>
              /\ SuccessRecord(job[i].ret) \/ FailureRecordOnly(job[i].ret)
              /\ ~(SuccessRecord(job[i].ret) /\ FailureRecordOnly(job[i].ret))
    /\ (opc = "done" /\ results # <<>>) =>
          /\ summary.success_count + summary.error_count = Len(results)
          /\ summary.success_count =
                 Cardinality({k \in 1..Len(results) : SuccessRecord(results[k])})
          /\ summary.error_count =
                 Cardinality({k \in 1..Len(results) : FailureRecordOnly(results[k])})

C10_Witness ==
    /\ opc = "done"
    /\ Len(results) = NumItems
    /\ summary.success_count > 0
    /\ summary.error_count > 0
    /\ \E k \in 1..Len(results) : SuccessRecord(results[k])
    /\ \E k \in 1..Len(results) : FailureRecordOnly(results[k])

(***************************************************************************)
(* Termination of the batch.                                               *)
(***************************************************************************)
\* every work item has returned a record and the report is written
Reported ==
    /\ opc = "done"
    /\ csv_file.written
    /\ Len(results) = Len(file_infos)
    /\ \A i \in Items : job[i].pc = "done" /\ (Success(job[i].ret) \/ Failed(job[i].ret))

\* C11: when every external call returns and the threads are scheduled
\* fairly, every work item reaches a Success or a Failure and the
\* orchestrator completes and writes its report, however many items fail
\* (a run that found no document has no item and has returned None).
C11_EventuallyReported == <>[](opc = "none" \/ Reported)

\* a finished batch in which every item failed
C11_Witness ==
    /\ Reported
    /\ Len(results) = NumItems
    /\ \A k \in 1..Len(results) : Failed(results[k])

(***************************************************************************)
(* Deterministic services: what each external call answers is a function   *)
(* of the document and the attempt (config.services), with the pool size   *)
(* (max_workers) 1 or MAX_WORKERS.                                         *)
(***************************************************************************)
R_object(obj) == [kind |-> "object", obj |-> obj, msg |-> None]

R_error(e) == [kind |-> "error", obj |-> NoDict, msg |-> e]

T_content(t) == [kind |-> "content", content |-> t, msg |-> None]

T_error(e) == [kind |-> "error", content |-> None, msg |-> e]

\* the answers of the OCR, the translation and the extraction call of one attempt
Answers(ocr, translation, llm) == [ocr |-> ocr, translation |-> translation, llm |-> llm]

AllFine == Answers(Ret(s_text, None), T_content(s_english), R_object(J_complete))

Always(a) == [n \in 1..MAX_RETRIES |-> a]

\* the behaviours of the services for one document, attempt by attempt
Scripts ==
    { Always(AllFine),
      [n \in 1..MAX_RETRIES |-> IF n = 1 THEN [AllFine EXCEPT !.llm = R_error(e_429)] ELSE AllFine],
      Always([AllFine EXCEPT !.llm = R_error(e_429)]),
      Always([AllFine EXCEPT !.llm = R_error(e_json)]),
      Always([AllFine EXCEPT !.llm = R_object(J_nulls)]),
      Always([AllFine EXCEPT !.translation = T_error(e_429)]),
      Always([AllFine EXCEPT !.ocr = Ret(None, e_json)]) }

\* what read_contract_file returns under the answers a: the OCR service is
\* the only collaborator of the read with more than one possible answer
ScriptedRead(info, a) ==
    LET outs == read_contract_file(info.data, info.extension, info.blob_url, ServiceErrors)
    IN  IF a.ocr \in outs THEN a.ocr ELSE CHOOSE o \in outs : TRUE

\* the frame after the external call it is blocked in has returned
ScriptedReturn(j, info, script) ==
    LET a == script[j.attempt] IN
    CASE j.pc = "read" -> AfterRead(j, info, ScriptedRead(info, a))
      [] j.pc = "save" -> AfterSave(j, info)
      [] j.pc = "translate" -> AfterTranslate(j, info, translate_to_english(a.translation))
      [] OTHER -> AfterExtract(j, info,
                      IF UseTwoCall(info.extension)
                      THEN extract_metadata_from_english(a.llm, info.name)
                      ELSE extract_metadata_direct(a.llm, info.name))

Returns(i) ==
    /\ i \in Items
    /\ job[i].pc \in {"read", "translate", "extract"}
    /\ \E j \in {ScriptedReturn(job[i], file_infos[i], config.services[i])} : Step(i, j)
    /\ UNCHANGED progress

InitScripted ==
    /\ config \in [ALWAYS_USE_TWO_CALL : {FALSE}, USE_TWO_CALL_FOR_PDFS : {TRUE},
                   doc_client : {TRUE}, SAVE_MARKDOWN : {TRUE},
                   max_workers : {1, MAX_WORKERS},
                   services : [1..NumItems -> Scripts]]
    /\ listing = Batch(NumItems)
    /\ parallel \in BOOLEAN
    /\ Start

NextScripted ==
    \/ Prepare({"text"})
    \/ SubmitAll
    \/ SeqStart
    \/ SeqCall
    \/ SeqReturn
    \/ \E w \in 1..config.max_workers : Take(w)
    \/ \E i \in Items : Collect(i)
    \/ \E i \in Items : Returns(i)
    \/ \E i \in Items : Save(i, {"stored"})
    \/ \E i \in Items : Wake(i)
    \/ \E i \in Items : IncrementEnter(i)
    \/ \E i \in Items : IncrementExit(i)
    \/ WriteReport

SpecScripted == InitScripted /\ [][NextScripted]_vars

\* the call for one work item run on its own, from the call to its return
RECURSIVE RunAlone(_, _, _)
RunAlone(j, info, script) ==
    CASE j.pc = "done" -> j
      [] j.pc \in {"read", "save", "translate", "extract"} ->
            RunAlone(ScriptedReturn(j, info, script), info, script)
      [] j.pc = "sleep" ->
            RunAlone(NextAttempt(j),
                     info, script)
      [] OTHER -> RunAlone(AfterIncrement(j, info), info, script)

\* the record the item at position i gets when nothing else runs
Alone(i) ==
    RunAlone([NewJob EXCEPT !.pc = "read", !.attempt = 1], file_infos[i], config.services[i]).ret

\* C12: with services that answer deterministically per document and
\* attempt, which documents are Successes and which are Failures is the
\* same for a pool of 1 or of MAX_WORKERS threads, in parallel and in
\* sequential mode, under every interleaving and in every run on the same
\* documents: each item's result is the one it gets when run alone.
C12_SamePartition ==
    (opc = "done" /\ file_infos # <<>>) =>
        /\ Len(results) = Len(file_infos)
        /\ \A k \in 1..Len(results) : Failed(results[k]) = Failed(Alone(origin[k]))
        /\ {origin[k] : k \in {n \in 1..Len(results) : Success(results[n])}}
              = {i \in Items : Success(Alone(i))}

\* a parallel run that collected the results in another order than the
\* enumeration, one a Success and one a Failure after a retry
C12_Witness ==
    /\ opc = "done"
    /\ parallel
    /\ config.max_workers = MAX_WORKERS
    /\ Len(results) = NumItems
    /\ origin[1] # 1
    /\ \E k \in 1..Len(results) : Success(results[k])
    /\ \E k \in 1..Len(results) : Failed(results[k]) /\ job[origin[k]].retried # <<>>

(***************************************************************************)
(* The failure list.                                                       *)
(***************************************************************************)
FailedItem(i) == Failed(job[i].ret)

TwoCallPrescribed(i) ==
    \/ config.ALWAYS_USE_TWO_CALL
    \/ Lower(Suffix(file_infos[i].name)) = s_pdf /\ config.USE_TWO_CALL_FOR_PDFS

\* C14: in every attempt the strategy is a function of the file type and the
\* two flags: the extraction call is preceded by a translation (two-call)
\* exactly when ALWAYS_USE_TWO_CALL is set or the item is a PDF and
\* USE_TWO_CALL_FOR_PDFS is set, and metadata is marked as two-call exactly
\* then; the attempt number and earlier errors do not matter.
C14_StrategyByTypeAndFlags ==
    [][\A i \in Items :
          /\ (job[i].pc = "read" /\ job'[i].pc \in {"translate", "extract"}) =>
                 (job'[i].pc = "translate" <=> TwoCallPrescribed(i))
          /\ (job[i].pc # "extract" /\ job'[i].pc = "extract") =>
                 (job[i].pc = "translate" <=> TwoCallPrescribed(i))
          /\ (job[i].pc = "extract" /\ job'[i].metadata # NoDict) =>
                 ("extraction_method" \in DOMAIN job'[i].metadata <=> TwoCallPrescribed(i))]_vars

\* a PDF under the PDF flag alone that is translated again in a later
\* attempt, after the extraction call of an earlier one reported an error
C14_Witness ==
    \E i \in Items :
        /\ job[i].attempt > 1
        /\ "extract" \in Range(job[i].retried)
        /\ job[i].pc = "translate"
        /\ ~config.ALWAYS_USE_TWO_CALL
        /\ file_infos[i].extension = s_pdf

(***************************************************************************)
(* Exceptions inside an attempt.                                           *)
(***************************************************************************)
\* C15: an exception raised during an attempt is caught in the call: while
\* attempts remain the thread sleeps RETRY_DELAY * 2^(attempt-1) and the next
\* attempt follows; at the last attempt the call returns a Failure whose
\* 'Error' is the text of the exception.
C15_ExceptionsCaught ==
    \A i \in Items :
        LET j == job[i]
            o == j.observed
        IN  /\ j.pc \in {"queued", "read", "translate", "extract", "incr", "locked",
                         "sleep", "done"}
            /\ o.step = "exception" =>
                   IF o.att < MAX_RETRIES
                   THEN /\ j.pc = "sleep"
                        /\ j.attempt = o.att
                        /\ j.delays[Len(j.delays)] = RETRY_DELAY * 2^(o.att - 1)
                        /\ j.retried[Len(j.retried)] = "exception"
                   ELSE /\ Terminal(j)
                        /\ Failed(Outcome(j))
                        /\ Outcome(j)["Error"] = o.msg
            /\ (j.attempt > 1 /\ j.pc # "sleep") => Len(j.retried) = j.attempt - 1

\* an item whose every attempt raised: two sleeps, then the Failure
C15_Witness ==
    \E i \in Items :
        /\ job[i].pc = "done"
        /\ job[i].observed.step = "exception"
        /\ job[i].attempt = MAX_RETRIES
        /\ job[i].retried = [n \in 1..(MAX_RETRIES - 1) |-> "exception"]
        /\ job[i].delays = [n \in 1..(MAX_RETRIES - 1) |-> RETRY_DELAY * 2^(n - 1)]
        /\ job[i].ret["Error"] = job[i].observed.msg

(***************************************************************************)
(* The worker pool.                                                        *)
(***************************************************************************)
\* the work items whose call has started and not returned
Active == {i \in Items : job[i].pc \notin {"queued", "done"}}

\* C16: in parallel mode the number of work items being processed (in a
\* read, a service call, the tracker or a backoff) never exceeds the size of
\* the pool, and a pool thread holds one item from its call to its return
\* before it takes the next.
C16_BoundedPool ==
    UsePool =>
        /\ Cardinality(Active) <= config.max_workers
        /\ config.max_workers <= MAX_WORKERS
        /\ \A i \in Active : Cardinality({w \in DOMAIN worker : worker[w] = i}) = 1
        /\ \A w \in DOMAIN worker : worker[w] # 0 => worker[w] \in Active
        /\ \A i \in Items : job[i].pc = "queued" <=> i \in Range(queue) \/ opc = "dispatch"

\* a pool of one thread in the backoff of its item while another item waits
C16_Witness ==
    /\ UsePool
    /\ config.max_workers = 1
    /\ queue # <<>>
    /\ Cardinality(Active) = 1
    /\ \E i \in Active : job[i].pc = "sleep" /\ worker[1] = i

(***************************************************************************)
(* Backoff and the rest of the batch.                                      *)
(***************************************************************************)
\* item k can go on: its thread is in an external call (which returns when
\* the service answers), or it can take a step, or it waits for the
\* tracker's lock and the thread holding the lock can leave the tracker
GoesOn(k) ==
    \/ job[k].pc \in {"read", "save", "translate", "extract"}
    \/ ENABLED (Wake(k) \/ IncrementEnter(k) \/ IncrementExit(k))
    \/ /\ job[k].pc = "incr"
       /\ progress.lock \in Items \ {k}
       /\ ENABLED IncrementExit(progress.lock)

\* a queued item can be started
Startable == ENABLED (SeqCall \/ \E w \in 1..config.max_workers : Take(w))

\* C17 (as amended): in parallel mode a call sleeping in a backoff does not
\* hold the tracker's lock, every other item whose call has started goes on,
\* and a queued item is started as soon as a pool thread is idle; the sleep
\* occupies the thread of its own item only.
C17_BackoffBlocksItsThreadOnly ==
    \A i \in Items :
        (UsePool /\ job[i].pc = "sleep") =>
            /\ progress.lock # i
            /\ \A k \in Active \ {i} : GoesOn(k)
            /\ (queue # <<>> /\ \E w \in 1..config.max_workers : worker[w] = 0) => Startable

\* a call sleeps while the other pool thread is in a call of its own item
C17_Witness ==
    \E i \in Items :
        /\ UsePool
        /\ job[i].pc = "sleep"
        /\ \E k \in Active \ {i} :
              job[k].pc \in {"read", "save", "translate", "extract"} /\ GoesOn(k)

\* C17 (as stated): while the call of one item sleeps in a backoff, every
\* other item of the batch that has not finished can go on or be started.
C17_AsStated ==
    \A i \in Items :
        job[i].pc = "sleep" =>
            \A k \in Items \ {i} :
                /\ job[k].pc \notin {"queued", "done"} => GoesOn(k)
                /\ job[k].pc = "queued" => Startable

(***************************************************************************)
(* C18: pool or calling thread.                                            *)
(***************************************************************************)
\* the orchestrator is past its dispatch test
Dispatched == opc \in {"seq", "collect", "report", "done"} /\ file_infos # <<>>

\* a call of process_contract_with_retry that has not returned
Running(i) == job[i].pc \notin {"queued", "done"}

\* the pool has the batch: the loop variable of the sequential branch is
\* never set, every running call is on a pool thread, and a result is
\* appended when its call has returned, wherever the item was in the batch
PoolRun ==
    /\ cur = 0
    /\ \A i \in Items : Running(i) => \E w \in 1..MAX_WORKERS : worker[w] = i
    /\ \A k \in 1..Len(origin) :
          job[origin[k]].pc = "done" /\ results[k] = job[origin[k]].ret

\* the calling thread has the batch: the pool is never given anything, item
\* cur is the only one that can be running, and the results are those of
\* the items before it, in their order
SequentialRun ==
    /\ queue = <<>>
    /\ \A w \in 1..MAX_WORKERS : worker[w] = 0
    /\ cur \in 1..(Len(file_infos) + 1)
    /\ \A i \in Items : /\ i < cur => job[i].pc = "done"
                        /\ i > cur => job[i].pc = "queued"
    /\ origin = [k \in 1..(cur - 1) |-> k]
    /\ \A k \in 1..Len(results) : results[k] = job[k].ret

\* C18: the worker pool is used exactly when parallel mode is requested and
\* the batch has more than one work item, and its results are appended as
\* the calls complete; in sequential mode, or with a single item, the items
\* are processed one at a time on the calling thread and the results list
\* is in enumeration order.
C18_PoolOrCallingThread ==
    Dispatched =>
        IF parallel /\ Len(file_infos) > 1 THEN PoolRun ELSE SequentialRun

\* a finished parallel run whose first result is not that of the first item
C18_Witness ==
    /\ opc = "done"
    /\ parallel
    /\ Len(results) = Len(file_infos)
    /\ Len(file_infos) > 1
    /\ origin[1] # 1

(***************************************************************************)
(* C19: a source without documents.                                        *)
(***************************************************************************)
\* no listed file ends in .txt, .docx or .pdf
NoDocument ==
    \A k \in 1..Len(listing) : Lower(Suffix(listing[k])) \notin {s_txt, s_docx, s_pdf}

\* the orchestrator has returned the path of its report
ReturnedPath == opc = "done"

\* C19: when the enumeration finds no document with a supported extension,
\* the run fails fast: no work item is created or processed, no call frame
\* (read, OCR, translation or extraction) ever exists, the tracker is never
\* set up, neither the report nor the failure list is written, and the run
\* ends returning None, never the report path.
C19_FailFast ==
    NoDocument =>
        /\ opc \in {"start", "none"}
        /\ ~ReturnedPath
        /\ file_infos = <<>> /\ job = <<>>
        /\ queue = <<>> /\ cur = 0 /\ \A w \in 1..MAX_WORKERS : worker[w] = 0
        /\ progress = [total |-> 0, completed |-> 0, lock |-> 0]
        /\ results = <<>>
        /\ csv_file = NotWritten /\ failed_file = NotWritten
        /\ ENABLED Next <=> opc = "start"

\* the run over a source that holds only a file of another type has returned
C19_Witness == listing = <<n_x>> /\ opc = "none"

(***************************************************************************)
(* C20: a PDF without the OCR client.                                      *)
(***************************************************************************)
\* item i is a PDF and the Document Intelligence client was never built
PdfWithoutOcr(i) == file_infos[i].extension = s_pdf /\ ~config.doc_client

\* C20: a PDF work item processed while the OCR client is not configured
\* becomes a Failure on its first attempt: the call never sleeps, never
\* starts a second attempt, never calls the translation or the extraction,
\* and returns 'Read error: Document Intelligence not configured'.
C20_OcrNotConfigured ==
    \A i \in Items :
        PdfWithoutOcr(i) =>
            LET j == job[i] IN
            /\ j.pc \in {"queued", "read", "incr", "locked", "done"}
            /\ j.attempt <= 1
            /\ j.delays = <<>> /\ j.retried = <<>>
            /\ j.metadata = NoDict
            /\ Terminal(j) =>
                  /\ j.attempt = 1
                  /\ Outcome(j) = FailureRecord(file_infos[i].name,
                                                s_read_prefix \o s_not_configured)

\* the call for such a PDF has returned
C20_Witness ==
    /\ Items # {}
    /\ PdfWithoutOcr(1)
    /\ job[1].pc = "done"
    /\ Failed(job[1].ret)

(***************************************************************************)
(* C21: a file of another type.                                            *)
(***************************************************************************)
\* the extension read_contract_file branches on for item i
ReadExtension(i) ==
    IF file_infos[i].data.kind = "bytes" THEN Lower(file_infos[i].extension)
    ELSE Lower(Suffix(file_infos[i].data.path))

\* item i holds bytes or a local path, of a type the reader does not cover
OtherType(i) ==
    /\ file_infos[i].data.kind \in {"bytes", "path"}
    /\ ~Falsy(file_infos[i].extension)
    /\ ReadExtension(i) \notin {s_txt, s_docx, s_pdf}

\* C21: for bytes or a local path whose extension is outside .txt, .docx,
\* .pdf, read_contract_file has one result whatever the services would do:
\* no text and 'Unsupported file format: <ext>'; the item fails on its first
\* attempt with that read error and is never retried.
C21_UnsupportedExtension ==
    \A i \in Items :
        OtherType(i) =>
            LET j == job[i] IN
            /\ read_contract_file(file_infos[i].data, file_infos[i].extension,
                                  file_infos[i].blob_url, AllErrors)
                  = {Ret(None, s_unsupported \o ReadExtension(i))}
            /\ j.pc \in {"queued", "read", "incr", "locked", "done"}
            /\ j.attempt <= 1
            /\ j.delays = <<>> /\ j.retried = <<>>
            /\ Terminal(j) =>
                  Outcome(j) = FailureRecord(file_infos[i].name,
                                   s_read_prefix \o s_unsupported \o ReadExtension(i))

\* the call for bytes named '.MD' has returned its Failure
C21_Witness ==
    /\ Items # {}
    /\ OtherType(1)
    /\ file_infos[1].extension = s_MD
    /\ job[1].pc = "done"
    /\ job[1].ret["Error"] = s_read_prefix \o s_unsupported \o s_md

(***************************************************************************)
(* C22: term type and expiration date.                                     *)
(***************************************************************************)
\* a value json.loads gives for a null or an absent field, or an empty text
Null(v) == v = None \/ v = <<>>

\* C22: no Success record has Term Type 'Perpetual' together with a
\* non-null Expiration Date, whatever JSON object the model returns (a
\* Term Type of 'Fixed' or 'Auto-Renewal' may come with a date).
C22_PerpetualHasNoExpiration ==
    \A i \in Items :
        (job[i].pc = "done" /\ Success(job[i].ret)) =>
            ~(/\ job[i].ret["Term Type"] = s_Perpetual
              /\ ~Null(job[i].ret["Expiration Date"]))

(***************************************************************************)
(* C23: the confidence level.                                              *)
(***************************************************************************)
\* C23: the confidence level of every Success record is one of high,
\* medium, low, whatever JSON object the model returns (its confidence
\* absent, null or another value).
C23_ConfidenceLevel ==
    \A i \in Items :
        (job[i].pc = "done" /\ Success(job[i].ret)) =>
            job[i].ret["Confidence"] \in {s_high, s_medium, s_low}

(***************************************************************************)
(* C24: the tag of the strategy.                                           *)
(***************************************************************************)
\* C24: every Success record the two-call strategy produced carries, in the
\* record returned to the orchestrator, extraction_method =
\* two_call_translation.
C24_StrategyTag ==
    \A i \in Items :
        (/\ job[i].pc = "done"
         /\ Success(job[i].ret)
         /\ Get(job[i].metadata, "extraction_method", None) = s_two_call) =>
            Get(job[i].ret, "extraction_method", None) = s_two_call

(***************************************************************************)
(* Single-file mode: process_single_contract(file_path), with the services *)
(* answering by a script as above.  job[1] is the frame of the function,   *)
(* file_infos[1] its argument seen as the work item a local batch would    *)
(* build for the same file, and ret the value returned: the metadata       *)
(* (also dumped to <stem>_metadata.json) or None.                          *)
(***************************************************************************)
SingleInfos == {FileInfo(Basename(n), LocalPath(n), Lower(Suffix(n)), None) : n \in {n_a, n_b, n_c}}

InitSingle ==
    /\ config \in [ALWAYS_USE_TWO_CALL : BOOLEAN, USE_TWO_CALL_FOR_PDFS : BOOLEAN,
                   doc_client : BOOLEAN, SAVE_MARKDOWN : {FALSE}, max_workers : {1},
                   services : [{1} -> Scripts]]
    /\ listing = <<>>
    /\ parallel = FALSE
    /\ opc = "single"
    /\ file_infos \in {<<f>> : f \in SingleInfos}
    /\ queue = <<>>
    /\ worker = [w \in 1..MAX_WORKERS |-> 0]
    /\ cur = 0
    /\ job = <<[NewJob EXCEPT !.pc = "exists"]>>
    /\ progress = [total |-> 0, completed |-> 0, lock |-> 0]
    /\ results = <<>>
    /\ origin = <<>>
    /\ csv_file = NotWritten
    /\ failed_file = NotWritten
    /\ summary = NoSummary
    /\ output_csv = o_csv
    /\ markdown = NoMarkdown

\* process_single_contract returns None
ReturnsNone(j, step, msg) ==
    [j EXCEPT !.pc = "done", !.ret = NoDict,
              !.observed = [att |-> 1, step |-> step, msg |-> msg]]

SingleStep(j) ==
    /\ opc = "single"
    /\ job' = [job EXCEPT ![1] = j]
    /\ UNCHANGED <<config, listing, parallel, opc, file_infos, queue, worker, cur,
                   progress, results, origin, csv_file, failed_file, summary, output_csv, markdown>>

\* if not path.exists(): return None
SingleExists ==
    /\ job[1].pc = "exists"
    /\ \E found \in BOOLEAN :
          SingleStep(IF found THEN [job[1] EXCEPT !.pc = "read", !.attempt = 1]
                     ELSE ReturnsNone(job[1], "not found", None))

\* contract_text, read_error = read_contract_file(path)
SingleRead ==
    /\ job[1].pc = "read"
    /\ \E o \in {ScriptedRead(file_infos[1], config.services[1][1])} :
          SingleStep(IF o.raised THEN [job[1] EXCEPT !.pc = "raised"]
                     ELSE IF Falsy(o.text) THEN ReturnsNone(job[1], "read", o.error)
                     ELSE [job[1] EXCEPT !.pc = "extract"])

\* metadata, error = extract_metadata_direct(contract_text, path.name), the
\* JSON sidecar, and the return
SingleExtract ==
    /\ job[1].pc = "extract"
    /\ \E r \in {extract_metadata_direct(config.services[1][1].llm, file_infos[1].name)} :
          SingleStep(IF Truthy(r.metadata)
                     THEN [job[1] EXCEPT !.pc = "done", !.metadata = r.metadata,
                                         !.ret = r.metadata]
                     ELSE ReturnsNone(job[1], "extract", r.error))

NextSingle == SingleExists \/ SingleRead \/ SingleExtract

SpecSingle == InitSingle /\ [][NextSingle]_vars

(***************************************************************************)
(* C25: single-file mode against a batch of one.                           *)
(***************************************************************************)
\* process_single_contract found the file and has returned
SingleDone ==
    opc = "single" /\ job[1].pc = "done" /\ job[1].observed.step # "not found"

\* C25: for the same file, configuration and service behaviour, single-file
\* mode ends as a one-item batch does: it returns metadata exactly when the
\* batch call for that file returns a Success.
C25_SingleAsBatchOfOne ==
    SingleDone => ((job[1].ret # NoDict) <=> Success(Alone(1)))

RECURSIVE Total(_)
Total(counts) ==
    IF DOMAIN counts = {} THEN 0
    ELSE LET x == CHOOSE x \in DOMAIN counts : TRUE
         IN  counts[x] + Total([y \in DOMAIN counts \ {x} |-> counts[y]])

\* C27: in the statistics of a batch with at least one success, the
\* per-language counts sum to the number of Success records, and so do the
\* counts of the confidence levels high, medium, low.
C27_StatisticsSumToSuccesses ==
    (opc = "done" /\ summary.success_count > 0) =>
        /\ Total(summary.languages) = summary.success_count
        /\ Total(summary.confidences) = summary.success_count

(***************************************************************************)
(* ProgressTracker on its own: NumCallers threads, each calling            *)
(* increment() once on one tracker.  job[i] is the frame of thread i and   *)
(* its tmp the value of self.completed it read, then the value returned.   *)
(***************************************************************************)
Callers == 1..NumCallers

InitTracker ==
    /\ config = [ALWAYS_USE_TWO_CALL |-> FALSE, USE_TWO_CALL_FOR_PDFS |-> TRUE,
                 doc_client |-> TRUE, SAVE_MARKDOWN |-> TRUE]
    /\ listing = <<>>
    /\ parallel = TRUE
    /\ opc = "tracker"
    /\ file_infos = <<>>
    /\ queue = <<>>
    /\ worker = [w \in 1..MAX_WORKERS |-> 0]
    /\ cur = 0
    /\ job = [i \in Callers |-> NewJob]
    /\ progress = [total |-> NumCallers, completed |-> 0, lock |-> 0]
    /\ results = <<>>
    /\ origin = <<>>
    /\ csv_file = NotWritten
    /\ failed_file = NotWritten
    /\ summary = NoSummary
    /\ output_csv = o_csv
    /\ markdown = NoMarkdown

TrackerStep(i, j, p) ==
    /\ opc = "tracker"
    /\ job' = [job EXCEPT ![i] = j]
    /\ progress' = p
    /\ UNCHANGED <<config, listing, parallel, opc, file_infos, queue, worker, cur,
                   results, origin, csv_file, failed_file, summary, output_csv, markdown>>

\* thread i calls increment()
TrackerCall(i) ==
    /\ job[i].pc = "queued"
    /\ TrackerStep(i, [job[i] EXCEPT !.pc = "incr"], progress)

\* with self.lock, and the read of self.completed += 1
TrackerEnter(i) ==
    /\ job[i].pc = "incr"
    /\ LockFree
    /\ TrackerStep(i, [job[i] EXCEPT !.pc = "locked", !.tmp = progress.completed],
                   Acquired(i))

\* the write, return self.completed, and the release
TrackerExit(i) ==
    /\ job[i].pc = "locked"
    /\ TrackerStep(i, [job[i] EXCEPT !.pc = "done", !.tmp = @ + 1],
                   Incremented(job[i].tmp))

NextTracker == \E i \in Callers : TrackerCall(i) \/ TrackerEnter(i) \/ TrackerExit(i)

SpecTracker == InitTracker /\ [][NextTracker]_vars

(***************************************************************************)
(* C28: increment is atomic.                                               *)
(***************************************************************************)
\* the threads whose increment() has returned
Incrementers == {i \in Callers : job[i].pc = "done"}

\* C28: under every interleaving of the increment() calls of different
\* threads no update is lost: completed is the number of calls that
\* returned (k when all k have), the values returned are exactly
\* 1..completed, each returned once, and one thread at a time is inside.
C28_AtomicIncrement ==
    opc = "tracker" =>
        /\ progress.completed = Cardinality(Incrementers)
        /\ {job[i].tmp : i \in Incrementers} = 1..Cardinality(Incrementers)
        /\ \A i, k \in Incrementers : job[i].tmp = job[k].tmp => i = k
        /\ Cardinality({i \in Callers : job[i].pc = "locked"}) <= 1
        /\ \A i \in Callers : job[i].pc = "locked" =>
              progress.lock = i /\ job[i].tmp = progress.completed

\* every call has returned, and the first thread's was the last to get in
C28_Witness ==
    /\ opc = "tracker"
    /\ Incrementers = Callers
    /\ progress.completed = NumCallers
    /\ job[1].tmp = NumCallers

(***************************************************************************)
(* C29: the lock and the external calls.                                   *)
(***************************************************************************)
\* the thread of item i is blocked in a call of a service (the read or OCR,
\* the markdown upload, the translation, the extraction)
InService(i) == job[i].pc \in {"read", "save", "translate", "extract"}

\* C29: no thread holds the progress lock while it is in an external call
\* or in a backoff sleep: the holder of the lock is always inside
\* increment(), and a thread that waits for the lock waits for a holder
\* that can finish its increment at once.
C29_NoLockAcrossCalls ==
    /\ \A i \in Items : (InService(i) \/ job[i].pc = "sleep") => progress.lock # i
    /\ progress.lock # 0 => (progress.lock \in Items /\ job[progress.lock].pc = "locked")
    /\ \A k \in Items :
          (job[k].pc = "incr" /\ ~LockFree) => ENABLED IncrementExit(progress.lock)

\* one thread sleeps in a backoff while another is inside increment()
C29_Witness ==
    \E i, k \in Items :
        /\ job[i].pc = "sleep"
        /\ job[k].pc = "locked"
        /\ progress.lock = k

(***************************************************************************)
(* C30: one increment for each work item.                                  *)
(***************************************************************************)
\* C30: the progress counter is incremented exactly once for each work
\* item, when the item reaches its terminal result and never on a retry:
\* completed is the number of calls that have returned, and when the batch
\* is complete completed equals total, whatever JSON object the model
\* returns.
C30_OneIncrementPerItem ==
    /\ progress.completed = Cardinality({i \in Items : job[i].pc = "done"})
    /\ Collected => progress.completed = progress.total

(***************************************************************************)
(* C31: metadata in hand.                                                  *)
(***************************************************************************)
\* the extraction call of the current attempt of item i returned metadata
\* and the row is built
HasMetadata(i) == job[i].pc \in {"incr", "locked"} /\ job[i].cont = "status"

\* C31: once an attempt's extraction call has returned parseable metadata
\* the item ends as a Success in that attempt: from there the call only
\* increments the tracker and returns the row, with no sleep and no further
\* read, translation or extraction, whatever JSON object the model returned.
C31_MetadataEndsInSuccess ==
    [][\A i \in Items :
          HasMetadata(i) =>
              /\ job'[i].pc \in {"incr", "locked", "done"}
              /\ job'[i].attempt = job[i].attempt
              /\ job'[i].pc = "done" => Success(job'[i].ret)]_vars

(***************************************************************************)
(* C32: a blob whose download failed.                                      *)
(***************************************************************************)
\* work item i was built by the preparation loop's except branch: no data,
\* no extension, no URL
FetchFailed(i) ==
    /\ file_infos[i].data = NoData
    /\ file_infos[i].extension = None
    /\ file_infos[i].blob_url = None

\* C32: in object-store mode an item whose fetch failed ends as a Failure on
\* its first attempt: it is never put to sleep and never starts a second
\* attempt.
C32_FetchFailureFailsAtOnce ==
    \A i \in Items :
        FetchFailed(i) =>
            /\ job[i].pc # "sleep"
            /\ job[i].delays = <<>>
            /\ job[i].attempt <= 1
            /\ job[i].pc = "done" => ~Success(job[i].ret)

(***************************************************************************)
(* C33: every attempt runs the whole pipeline.                             *)
(***************************************************************************)
\* the frame of item i moves to pc in this step
Enters(i, pc) == job'[i].pc = pc /\ job[i].pc # pc

\* item i is in the same attempt before and after the step, coming from one
\* of the positions FROM
SameAttemptFrom(i, FROM) ==
    job[i].pc \in FROM /\ job'[i].attempt = job[i].attempt

SaveOutcomes == {"stored", "raised"}

MarkdownListings == {<<n_a, n_d>>, <<n_a, n_c>>}

InitMarkdown ==
    /\ config \in [ALWAYS_USE_TWO_CALL : {FALSE}, USE_TWO_CALL_FOR_PDFS : {TRUE},
                   doc_client : {TRUE}, SAVE_MARKDOWN : BOOLEAN]
    /\ listing \in MarkdownListings
    /\ parallel \in BOOLEAN
    /\ Start

NextMarkdown ==
    \/ Prepare({"text", "empty"})
    \/ SubmitAll
    \/ SeqStart
    \/ SeqCall
    \/ SeqReturn
    \/ \E w \in 1..MAX_WORKERS : Take(w)
    \/ \E i \in Items : Collect(i)
    \/ \E i \in Items : Read(i, {e_429})
    \/ \E i \in Items : Save(i, SaveOutcomes)
    \/ \E i \in Items : Translate(i, {e_401})
    \/ \E i \in Items : Extract(i, {J_complete}, {e_429})
    \/ \E i \in Items : Wake(i)
    \/ \E i \in Items : IncrementEnter(i)
    \/ \E i \in Items : IncrementExit(i)
    \/ WriteReport

SpecMarkdown == InitMarkdown /\ [][NextMarkdown]_vars

(***************************************************************************)
(* C34: a document with no text.                                           *)
(***************************************************************************)
\* the document of item i was downloaded and decodes to the empty text
EmptyDocument(i) == file_infos[i].data = Bytes("empty")

\* the markdown container holds a copy made from the document of item i
Copied(i) == \E b \in markdown.blobs : b.source = file_infos[i].name

\* C34: a document read without error whose text is empty is a read failure:
\* its item makes one attempt, is never in the markdown save, a translation
\* or an extraction call or a backoff, leaves no markdown copy, and returns
\* a Failure whose Error is the read error text.
C34_EmptyTextIsReadFailure ==
    \A i \in Items :
        EmptyDocument(i) =>
            /\ job[i].pc \notin {"save", "translate", "extract", "sleep"}
            /\ job[i].attempt <= 1
            /\ job[i].delays = <<>>
            /\ ~Copied(i)
            /\ job[i].pc = "done" =>
                   /\ ~Success(job[i].ret)
                   /\ Get(job[i].ret, "Error", None) = s_read_prefix \o Str(None)

\* with SAVE_MARKDOWN on, the call for an empty document has returned
C34_Witness ==
    \E i \in Items :
        /\ config.SAVE_MARKDOWN
        /\ EmptyDocument(i)
        /\ job[i].pc = "done"

(***************************************************************************)
(* Runs on one output name: sequential batches of plain-text and Word      *)
(* documents, the files of a run staying on disk for the next.             *)
(***************************************************************************)
RunListings == {<<n_a>>, <<n_a, n_c>>}

\* a fresh process: the orchestrator's state of Start, the disk kept
Restarted ==
    /\ opc' = "start"
    /\ file_infos' = <<>>
    /\ queue' = <<>>
    /\ worker' = [w \in 1..MAX_WORKERS |-> 0]
    /\ cur' = 0
    /\ job' = <<>>
    /\ progress' = [total |-> 0, completed |-> 0, lock |-> 0]
    /\ results' = <<>>
    /\ origin' = <<>>
    /\ summary' = NoSummary

\* the program is started again with the same output name
Rerun ==
    /\ opc = "done"
    /\ listing' \in RunListings
    /\ Restarted
    /\ UNCHANGED <<config, parallel, csv_file, failed_file, output_csv, markdown>>

InitOutput ==
    /\ config \in [ALWAYS_USE_TWO_CALL : {FALSE}, USE_TWO_CALL_FOR_PDFS : {TRUE},
                   doc_client : {TRUE}, SAVE_MARKDOWN : {FALSE}]
    /\ listing \in RunListings
    /\ parallel = FALSE
    /\ opc = "start"
    /\ file_infos = <<>>
    /\ queue = <<>>
    /\ worker = [w \in 1..MAX_WORKERS |-> 0]
    /\ cur = 0
    /\ job = <<>>
    /\ progress = [total |-> 0, completed |-> 0, lock |-> 0]
    /\ results = <<>>
    /\ origin = <<>>
    /\ csv_file = NotWritten
    /\ failed_file = NotWritten
    /\ summary = NoSummary
    /\ output_csv \in {o_csv, o_plain}
    /\ markdown = NoMarkdown

NextOutput ==
    \/ Prepare({"text", "bad"})
    \/ SeqStart
    \/ SeqCall
    \/ SeqReturn
    \/ \E i \in Items : Read(i, {})
    \/ \E i \in Items : Extract(i, {J_complete}, {e_json})
    \/ \E i \in Items : IncrementEnter(i)
    \/ \E i \in Items : IncrementExit(i)
    \/ WriteReport

SpecOutput == InitOutput /\ [][NextOutput]_vars

InitRuns == InitOutput /\ output_csv = o_csv

NextRuns == NextOutput \/ Rerun

SpecRuns == InitRuns /\ [][NextRuns]_vars

(***************************************************************************)
(* C35: the two output files.                                              *)
(***************************************************************************)
\* C35: for every output name, with or without a '.csv' suffix, the failure
\* list goes to a path other than the report's, and after a run that wrote
\* its files the file at the output name holds the rows of the report.
C35_FailureListHasItsOwnPath ==
    (opc = "done" /\ results # <<>>) =>
        /\ FailedFilePath(output_csv) # output_csv
        /\ csv_file.rows = WrittenRows(results)

(***************************************************************************)
(* C36: the failure list of an earlier run.                                *)
(***************************************************************************)
\* C36: when a run has finished, whatever runs wrote to the same output name
\* before, a failure list exists only if this run had a failure, and then it
\* lists this run's failed documents under this run's count.
C36_FailureListOfThisRun ==
    (opc = "done" /\ results # <<>>) =>
        IF ErrorCount(results, Len(results)) > 0
        THEN /\ failed_file.written
             /\ failed_file.rows = FailedContracts(results)
             /\ failed_file.count = ErrorCount(results, Len(results))
        ELSE ~failed_file.written

(***************************************************************************)
(* C37: one markdown copy per document.                                    *)
(***************************************************************************)
\* C37: with SAVE_MARKDOWN on, distinct work items of a batch write distinct
\* markdown blobs: the copy stored for a document is never replaced by the
\* copy of another document of the batch, so that at the end every document
\* whose copy was stored still has it.
C37_DistinctMarkdownBlobs ==
    [][\A i \in Items : Copied(i) => Copied(i)']_vars

(***************************************************************************)
(* C38: the markdown copy is a side channel.                               *)
(***************************************************************************)
\* the frame of a call that made no save at all, after its read returned
\* text: same attempt, same delays, nothing observed, at the first call of
\* the strategy
WithoutSave(j, info) ==
    [j EXCEPT !.pc = IF UseTwoCall(info.extension) THEN "translate" ELSE "extract"]

\* C38: whether save_text_as_markdown stores the copy or the storage raises,
\* the step leaves the call where a call with the save disabled is after its
\* read: same attempt, delays and retries, no error observed, the strategy's
\* first call next. A failed save is therefore never the item's error.
C38_SaveIsSideChannel ==
    [][\A i \in Items :
          (job[i].pc = "save" /\ job'[i] # job[i]) =>
              job'[i] = WithoutSave(job[i], file_infos[i])]_vars

\* the upload of a document's copy raised and its call returned a Success
C38_Witness ==
    \E i \in Items :
        /\ config.SAVE_MARKDOWN
        /\ markdown.blobs = {}
        /\ job[i].pc = "done"
        /\ Success(job[i].ret)

(***************************************************************************)
(* C39: the report waits for the pool.                                     *)
(***************************************************************************)
\* every submitted item has returned its record and every pool thread is
\* idle with nothing left to take
PoolDrained ==
    /\ queue = <<>>
    /\ \A w \in DOMAIN worker : worker[w] = 0
    /\ \A i \in Items : job[i].pc = "done"

\* C39: in parallel mode the table and the failure list are written only
\* when every submitted item has reached its terminal result and every pool
\* thread has finished, so no item is then in a read, a service call or a
\* backoff; and results grows only by a step of the orchestrator thread that
\* appends the record a finished call returned, a step in which no item's
\* call and no pool thread moves.
C39_ReportAfterPoolDrained ==
    [][UsePool =>
          /\ (opc = "report" \/ csv_file' # csv_file \/ failed_file' # failed_file) =>
                 PoolDrained
          /\ results' # results =>
                 /\ opc = "collect"
                 /\ job' = job /\ worker' = worker /\ progress' = progress
                 /\ \E i \in Items :
                       /\ job[i].pc = "done"
                       /\ results' = Append(results, job[i].ret)]_vars

\* a parallel batch has written its report after one of its items went
\* through a backoff
C39_Witness ==
    /\ UsePool
    /\ opc = "done"
    /\ csv_file.written
    /\ PoolDrained
    /\ \E i \in Items : job[i].delays # <<>>

====
